---- MODULE Spec2Model ----
(***************************************************************************)
(* PI Strategist: the analyzers of src/src/pi_strategist/analyzers and the *)
(* session and file handling of src/backend/app, modelled call by call.    *)
(***************************************************************************)
EXTENDS Integers, Sequences, FiniteSets, TLC

VARIABLES
    analyzer,        \* the CapacityAnalyzer instance: [default_buffer], or None
    error,           \* the exception the last constructor call raised, or None
    capacity_plan,   \* the CapacityPlan handed to the last analyze() call
    red_flags,       \* the RedFlag list handed to the last analyze() call
    results,         \* the list[SprintAnalysis] the last analyze() returned
    quick,           \* arguments and return value of the last validate_capacity()
    clusters,        \* the list[DeploymentCluster] DeploymentAnalyzer.analyze() returned
    resources,       \* the resources dict handed to ResourceAnalyzer.analyze()
    thresholds,      \* the ResourceAnalyzer instance: its three thresholds
    resource_analysis, \* the ResourceAnalysis it returned
    velocity_analyzer, \* the VelocityAnalyzer instance: [trend_threshold]
    velocity_analysis, \* the VelocityAnalysis its analyze() returned
    scorer,            \* the RiskScorer instance: [weights]
    score_args,        \* the arguments of the last RiskScorer.score() call
    risk_score,        \* the RiskScoreResult it returned
    document,          \* the DEDDocument handed to RiskAnalyzer.analyze()
    found_flags,       \* the list[RedFlag] RiskAnalyzer.analyze() returned
    files_schema,      \* how the files table of the database came to be
    sessions,          \* the rows of the sessions table
    files,             \* the rows of the files table, newest first
    disk,              \* the files in the upload directory
    uploaded_by,       \* history: the session each stored file was uploaded under
    issued,            \* how many uuids were generated for sessions and for files
    request,           \* the last HTTP request
    response,          \* the response to it
    calls,             \* history: the analyze() and score() calls made, with what they returned
    settings,          \* app.config.settings
    _request_log,      \* rate_limiter._request_log: session_id -> list of timestamps
    clock,             \* the time, in seconds: time.monotonic(), datetime.utcnow()
    admissions,        \* history: session_id -> the timestamps of the requests the limiter let pass
    limited,           \* the last rate_limit_ai() call and how it ended
    saved_analyses,    \* the rows of the analyses table
    serving,           \* the requests in flight: where each is and what it holds
    cleanup            \* the cleanup_expired_sessions() run: where it is and what it holds

\* the variables of the velocity analyzer, and of the analyzers modelled after
\* the capacity, deployment and resource analyzers
velocityVars == <<velocity_analyzer, velocity_analysis>>
scorerVars == <<scorer, score_args, risk_score>>
riskVars == <<document, found_flags>>
\* the variables of the rate limiter and of the session cleanup, and of the
\* history of calls
lastVars == <<calls, settings, _request_log, clock, admissions, limited,
              saved_analyses,              serving, cleanup>>
backendVars ==
    <<files_schema, sessions, files, disk, uploaded_by, issued, request, response, lastVars>>
laterVars == <<velocityVars, scorerVars, riskVars, backendVars>>

vars == <<analyzer, error, capacity_plan, red_flags, results, quick,
          clusters, resources, thresholds, resource_analysis, laterVars>>

\* None where a str is expected (Optional[str]); no id or name is "None"
None == "None"

\* a variable that holds an object or nothing: the empty list, or the object alone
Absent == <<>>
Present(x) == <<x>>

(***************************************************************************)
(* Python floats.  The analyzers compute in binary floating point with     *)
(* round-to-nearest, ties-to-even.  The model keeps the format and scales  *)
(* it down: Precision significant bits, and 2^-FracBits the spacing of the *)
(* smallest values.  A float x is held as the integer x * 2^FracBits.      *)
(***************************************************************************)
Precision == 10
FracBits == 9

One == 2^FracBits

Abs(n) == IF n < 0 THEN -n ELSE n

RECURSIVE Exponent(_, _, _)
\* the least k >= e for which n / (d * 2^k) has at most Precision bits
Exponent(n, d, e) ==
    IF n \div (d * 2^e) < 2^Precision THEN e ELSE Exponent(n, d, e + 1)

\* the float nearest to the rational n / d (d > 0), ties to the even mantissa
Round(n, d) ==
    LET a == Abs(n)
        u == d * 2^Exponent(a, d, 0)
        q == a \div u
        r == a % u
        m == IF 2 * r > u \/ (2 * r = u /\ q % 2 = 1) THEN q + 1 ELSE q
    IN  (IF n < 0 THEN -1 ELSE 1) * m * (u \div d)

\* the float a decimal literal n/d denotes, e.g. Float(2, 10) for 0.2
Float(n, d) == Round(n * One, d)

FAdd(x, y) == Round(x + y, 1)
FSub(x, y) == Round(x - y, 1)
FMul(x, y) == Round(x * y, One)
FDiv(x, y) == IF y < 0 THEN Round(-(x * One), -y) ELSE Round(x * One, y)

RECURSIVE FSum(_)
\* sum(...) over a list of floats: left to right from 0
FSum(hs) ==
    IF hs = <<>> THEN 0
    ELSE FAdd(FSum(SubSeq(hs, 1, Len(hs) - 1)), hs[Len(hs)])

Min(S) == CHOOSE x \in S : \A y \in S : x <= y

\* Python truthiness of an Optional[str]
Truthy(s) == s # None /\ s # ""

(***************************************************************************)
(* models.py: Task, Sprint and its derived properties, RedFlag.            *)
(***************************************************************************)
\* Task.sprint (the name of the sprint, a str) is read by none of the
\* analyzers and is left out of the record
Task(id, name, hours, story_id, epic_id, dependencies, tags) ==
    [id |-> id, name |-> name, hours |-> hours, story_id |-> story_id,
     epic_id |-> epic_id, dependencies |-> dependencies, tags |-> tags]

Sprint(name, total_hours, buffer_percentage, tasks) ==
    [name |-> name, total_hours |-> total_hours,
     buffer_percentage |-> buffer_percentage, tasks |-> tasks]

RedFlag(story_id, epic_id, severity) ==
    [ac |-> [story_id |-> story_id, epic_id |-> epic_id], severity |-> severity]

PASS == "pass"
FAIL == "fail"

buffer_hours(s) == FMul(s.total_hours, s.buffer_percentage)

net_capacity(s) == FSub(s.total_hours, buffer_hours(s))

sprint_load(s) == FSum([i \in 1..Len(s.tasks) |-> s.tasks[i].hours])

\* status with a strict comparison: a load equal to the capacity fails
status_strict(s) == IF sprint_load(s) < net_capacity(s) THEN PASS ELSE FAIL

status(s) == IF sprint_load(s) <= net_capacity(s) THEN PASS ELSE FAIL

overflow_hours(s) == FSub(sprint_load(s), net_capacity(s))

(***************************************************************************)
(* analyzers/capacity_analyzer.py.  Sprint indices are 1-based here: the   *)
(* code's index i is position i + 1 of capacity_plan.sprints.              *)
(***************************************************************************)
CapacityRecommendation(task, from_sprint, to_sprint, reason, priority) ==
    [task |-> task, from_sprint |-> from_sprint, to_sprint |-> to_sprint,
     reason |-> reason, priority |-> priority]

\* CapacityAnalyzer.__init__: the new instance, or the ValueError it raises
\* a constructor that accepts a buffer of exactly 1
CapacityAnalyzer_closed(default_buffer) ==
    IF ~(0 <= default_buffer /\ default_buffer <= One)
    THEN [raised |-> "ValueError", self |-> Absent]
    ELSE [raised |-> None, self |-> Present([default_buffer |-> default_buffer])]

CapacityAnalyzer(default_buffer) ==
    IF ~(0 <= default_buffer /\ default_buffer < One)
    THEN [raised |-> "ValueError", self |-> Absent]
    ELSE [raised |-> None, self |-> Present([default_buffer |-> default_buffer])]

_get_red_flag_task_ids(flags) ==
    {flags[i].ac.story_id : i \in {j \in 1..Len(flags) : Truthy(flags[j].ac.story_id)}}
    \cup
    {flags[i].ac.epic_id : i \in {j \in 1..Len(flags) : Truthy(flags[j].ac.epic_id)}}

RECURSIVE SelectAt(_, _)
\* a list comprehension: the elements of seq at the positions in keep, in order
SelectAt(seq, keep) ==
    IF seq = <<>> THEN <<>>
    ELSE LET front == SelectAt(SubSeq(seq, 1, Len(seq) - 1), keep)
         IN  IF Len(seq) \in keep THEN Append(front, seq[Len(seq)]) ELSE front

\* sorted(tasks, key=lambda t: -t.hours): stable, largest hours first
RECURSIVE sorted_by_hours(_)
sorted_by_hours(tasks) ==
    IF tasks = <<>> THEN <<>>
    ELSE LET front == sorted_by_hours(SubSeq(tasks, 1, Len(tasks) - 1))
             last == tasks[Len(tasks)]
             k == Cardinality({i \in 1..Len(front) : front[i].hours >= last.hours})
         IN  SubSeq(front, 1, k) \o <<last>> \o SubSeq(front, k + 1, Len(front))

\* the high-risk tasks of a sprint (lines 94-97)
high_risk_of(sprint, red_flag_tasks) ==
    SelectAt(sprint.tasks,
             {i \in 1..Len(sprint.tasks) :
                 \/ sprint.tasks[i].id \in red_flag_tasks
                 \/ sprint.tasks[i].story_id \in red_flag_tasks})

\* move candidates that are not filtered by high_risk_ids
movable_tasks_unfiltered(sprint, high_risk_tasks) ==
    sorted_by_hours(sprint.tasks)

\* lines 148-153: the move candidates; Task has no is_high_risk attribute, so
\* the sort key is (True, -hours)
movable_tasks_of(sprint, high_risk_tasks) ==
    LET high_risk_ids == {high_risk_tasks[i].id : i \in 1..Len(high_risk_tasks)}
    IN  sorted_by_hours(
            SelectAt(sprint.tasks,
                     {i \in 1..Len(sprint.tasks) : sprint.tasks[i].id \notin high_risk_ids}))

\* target sprints limited to the sprint that follows
target_sprints_next_only(index, all_sprints) ==
    LET entry == [i \in 1..Len(all_sprints) |->
                     [idx |-> i,
                      available |-> FSub(net_capacity(all_sprints[i]),
                                         sprint_load(all_sprints[i]))]]
    IN  SelectAt(entry, {i \in 1..Len(all_sprints) :
                            i = index + 1 /\ entry[i].available > 0})

\* lines 155-161: the later sprints with spare capacity, as (index, available)
target_sprints_of(index, all_sprints) ==
    LET entry == [i \in 1..Len(all_sprints) |->
                     [idx |-> i,
                      available |-> FSub(net_capacity(all_sprints[i]),
                                         sprint_load(all_sprints[i]))]]
    IN  SelectAt(entry, {i \in 1..Len(all_sprints) : i > index /\ entry[i].available > 0})

RECURSIVE move_loop_unbounded(_, _, _, _, _, _, _)
\* a move loop without the break on hours_to_move <= 0
move_loop_unbounded(sprint, all_sprints, movable_tasks, j, hours_to_move, target_sprints, recs) ==
    IF j > Len(movable_tasks)
    THEN [recommendations |-> recs, hours_to_move |-> hours_to_move]
    ELSE LET task == movable_tasks[j]
             fits == {k \in 1..Len(target_sprints) :
                         target_sprints[k].available >= task.hours}
         IN  IF fits = {}
             THEN move_loop_unbounded(sprint, all_sprints, movable_tasks, j + 1,
                                      hours_to_move, target_sprints, recs)
             ELSE LET k == Min(fits)
                      target == all_sprints[target_sprints[k].idx]
                  IN  move_loop_unbounded(
                          sprint, all_sprints, movable_tasks, j + 1,
                          FSub(hours_to_move, task.hours),
                          [target_sprints EXCEPT ![k].available = FSub(@, task.hours)],
                          Append(recs, CapacityRecommendation(
                              task, sprint.name, target.name,
                              <<"Reduce overload by", task.hours>>, 2)))

RECURSIVE move_loop(_, _, _, _, _, _, _)
\* lines 163-186: the loop over movable_tasks from position j on
move_loop(sprint, all_sprints, movable_tasks, j, hours_to_move, target_sprints, recs) ==
    IF j > Len(movable_tasks) \/ hours_to_move <= 0
    THEN [recommendations |-> recs, hours_to_move |-> hours_to_move]
    ELSE LET task == movable_tasks[j]
             fits == {k \in 1..Len(target_sprints) :
                         target_sprints[k].available >= task.hours}
         IN  IF fits = {}
             THEN move_loop(sprint, all_sprints, movable_tasks, j + 1,
                            hours_to_move, target_sprints, recs)
             ELSE LET k == Min(fits)
                      target == all_sprints[target_sprints[k].idx]
                  IN  move_loop(sprint, all_sprints, movable_tasks, j + 1,
                                FSub(hours_to_move, task.hours),
                                [target_sprints EXCEPT
                                    ![k].available = FSub(@, task.hours)],
                                Append(recs, CapacityRecommendation(
                                    task, sprint.name, target.name,
                                    <<"Reduce overload by", task.hours>>, 2)))

\* lines 188-202: at most one split recommendation
split_recommendation(sprint, hours_to_move) ==
    LET by_hours == sorted_by_hours(sprint.tasks)
        big == {i \in 1..Len(by_hours) :
                   by_hours[i].hours > hours_to_move /\ by_hours[i].hours > Float(4, 1)}
    IN  IF hours_to_move > 0 /\ big # {}
        THEN <<CapacityRecommendation(
                   by_hours[Min(big)], sprint.name, sprint.name \o " + later sprint",
                   <<"Consider splitting task", by_hours[Min(big)].hours>>, 3)>>
        ELSE <<>>

_generate_recommendations(sprint, index, all_sprints, overflow, high_risk_tasks) ==
    LET moved == move_loop(sprint, all_sprints,
                           movable_tasks_of(sprint, high_risk_tasks), 1, overflow,
                           target_sprints_of(index, all_sprints), <<>>)
    IN  moved.recommendations \o split_recommendation(sprint, moved.hours_to_move)

RECURSIVE early_validation_nearest(_, _, _, _, _)
\* high-risk tasks moved to the nearest earlier sprint with room
early_validation_nearest(sprint, index, all_sprints, high_risk_tasks, j) ==
    IF ~(index > 1) \/ j > Len(high_risk_tasks) THEN <<>>
    ELSE LET task == high_risk_tasks[j]
             roomy == {e \in 1..(index - 1) :
                          FSub(net_capacity(all_sprints[e]), sprint_load(all_sprints[e]))
                              >= task.hours}
             rest == early_validation_nearest(sprint, index, all_sprints,
                                              high_risk_tasks, j + 1)
         IN  IF roomy = {} THEN rest
             ELSE <<CapacityRecommendation(
                        task, sprint.name,
                        all_sprints[CHOOSE e \in roomy : \A f \in roomy : f <= e].name,
                        <<"High-risk task should be validated early">>, 1)>> \o rest

RECURSIVE early_validation(_, _, _, _, _)
\* lines 109-125: high-risk tasks from position j on, moved to an earlier sprint
early_validation(sprint, index, all_sprints, high_risk_tasks, j) ==
    IF ~(index > 1) \/ j > Len(high_risk_tasks) THEN <<>>
    ELSE LET task == high_risk_tasks[j]
             roomy == {e \in 1..(index - 1) :
                          FSub(net_capacity(all_sprints[e]), sprint_load(all_sprints[e]))
                              >= task.hours}
             rest == early_validation(sprint, index, all_sprints, high_risk_tasks, j + 1)
         IN  IF roomy = {} THEN rest
             ELSE <<CapacityRecommendation(
                        task, sprint.name, all_sprints[Min(roomy)].name,
                        <<"High-risk task should be validated early">>, 1)>> \o rest

_analyze_sprint(sprint, index, all_sprints, red_flag_tasks) ==
    LET high_risk_tasks == high_risk_of(sprint, red_flag_tasks)
        recommendations ==
            IF status(sprint) = FAIL
            THEN _generate_recommendations(sprint, index, all_sprints,
                                           overflow_hours(sprint), high_risk_tasks)
            ELSE <<>>
    IN  [sprint |-> sprint,
         status |-> status(sprint),
         overflow_hours |-> overflow_hours(sprint),
         utilization_percent |->
             IF net_capacity(sprint) > 0
             THEN FMul(FDiv(sprint_load(sprint), net_capacity(sprint)), Float(100, 1))
             ELSE 0,
         recommendations |->
             recommendations \o
             early_validation(sprint, index, all_sprints, high_risk_tasks, 1),
         high_risk_tasks |-> high_risk_tasks]

\* an analyze() that keeps the red flag ids of the call before
analyze_remembering(plan, flags) ==
    LET red_flag_tasks ==
            (IF flags # <<>> THEN _get_red_flag_task_ids(flags) ELSE {})
            \cup (IF red_flags # <<>> THEN _get_red_flag_task_ids(red_flags) ELSE {})
    IN  [i \in 1..Len(plan.sprints) |->
            _analyze_sprint(plan.sprints[i], i, plan.sprints, red_flag_tasks)]

\* CapacityAnalyzer.analyze(capacity_plan, red_flags); red_flags=None is passed
\* as the empty list, which line 66 treats alike
analyze(plan, flags) ==
    LET red_flag_tasks ==
            IF flags # <<>> THEN _get_red_flag_task_ids(flags) ELSE {}
    IN  [i \in 1..Len(plan.sprints) |->
            _analyze_sprint(plan.sprints[i], i, plan.sprints, red_flag_tasks)]

\* CapacityAnalyzer.validate_capacity(total_hours, sprint_load, buffer_percentage)
validate_capacity(total_hours, load, buffer_percentage) ==
    LET net == FMul(total_hours, FSub(One, buffer_percentage))
        overflow == FSub(load, net)
    IN  [status |-> IF overflow <= 0 THEN PASS ELSE FAIL, overflow |-> overflow]

(***************************************************************************)
(* Inputs.                                                                  *)
(***************************************************************************)
MaxSprints == 3
MaxPlanTasks == 3
MaxQuickTasks == 2

SprintNames == <<"Sprint 1", "Sprint 2", "Sprint 3", "Sprint 4", "Sprint 5">>

\* all lists of length at most n over S
RECURSIVE SeqsUpTo(_, _)
SeqsUpTo(S, n) ==
    IF n = 0 THEN {<<>>}
    ELSE LET shorter == SeqsUpTo(S, n - 1)
         IN  shorter \cup {Append(q, x) : q \in shorter, x \in S}

\* all lists of length exactly n over S
SeqsOf(S, n) == {q \in SeqsUpTo(S, n) : Len(q) = n}

CapacityPlan(sprints) == [sprints |-> sprints]

\* the arguments the constructor is tried with: -0.1, 0, 0.2, 1 and 1.5
BufferArgs == {Float(-1, 10), 0, Float(2, 10), One, Float(15, 10)}

\* the quick check: plans of at most one sprint
QuickTotals == {0, Float(3, 1), Float(100, 1)}
QuickBuffers == {0, Float(1, 100), Float(2, 10)}
QuickHours == {Float(8007, 100), Float(2, 1), Float(8, 1)}

QuickTasks == {Task("T1", "task", h, None, None, <<>>, <<>>) : h \in QuickHours}

QuickPlans ==
    {CapacityPlan(<<>>)} \cup
    {CapacityPlan(<<Sprint(SprintNames[1], t, b, ts)>>) :
        t \in QuickTotals, b \in QuickBuffers, ts \in SeqsUpTo(QuickTasks, MaxQuickTasks)}

(***************************************************************************)
(* The quick check: construct an analyzer, analyze a plan, and validate    *)
(* the numbers of one of its sprints with validate_capacity().             *)
(***************************************************************************)
NoDeployment == clusters = Absent
NoVelocity == velocity_analyzer = Absent /\ velocity_analysis = Absent
\* none of the later analyzers has been constructed or called
NoScorer == scorer = Absent /\ score_args = Absent /\ risk_score = Absent
NoRisk == document = Absent /\ found_flags = Absent

\* no call recorded, the limiter not loaded, no request in flight and no
\* cleanup running
NoLast ==
    /\ calls = <<>>
    /\ settings = Absent
    /\ _request_log = <<>>
    /\ clock = 0
    /\ admissions = <<>>
    /\ limited = Absent
    /\ saved_analyses = {}
    /\ serving = <<>>
    /\ cleanup = Absent

\* the backend not started: a database without rows, no request made
NoBackend ==
    /\ NoLast
    /\ files_schema = "created"
    /\ sessions = {}
    /\ files = <<>>
    /\ disk = {}
    /\ uploaded_by = {}
    /\ issued = <<0, 0>>
    /\ request = Absent
    /\ response = Absent

NoLater == NoVelocity /\ NoScorer /\ NoRisk /\ NoBackend
NoResources == resources = Absent /\ thresholds = Absent /\ resource_analysis = Absent

InitQuick ==
    /\ analyzer = Absent
    /\ error = None
    /\ capacity_plan \in QuickPlans
    /\ red_flags = <<>>
    /\ results = Absent
    /\ quick = Absent
    /\ NoDeployment
    /\ NoResources
    /\ NoLater

\* analyzer = CapacityAnalyzer(default_buffer=b)
Construct(b) ==
    /\ analyzer = Absent
    /\ error = None
    /\ analyzer' = CapacityAnalyzer(b).self
    /\ error' = CapacityAnalyzer(b).raised
    /\ UNCHANGED <<capacity_plan, red_flags, results, quick,
                   clusters, resources, thresholds, resource_analysis, laterVars>>

\* results = analyzer.analyze(capacity_plan, red_flags)
Analyze ==
    /\ analyzer # Absent
    /\ results = Absent
    /\ results' = Present(analyze(capacity_plan, red_flags))
    /\ UNCHANGED <<analyzer, error, capacity_plan, red_flags, quick,
                   clusters, resources, thresholds, resource_analysis, laterVars>>

\* quick = analyzer.validate_capacity(...) on the numbers of sprint i
ValidateCapacity(i) ==
    /\ analyzer # Absent
    /\ quick = Absent
    /\ LET s == capacity_plan.sprints[i]
       IN  quick' = Present(
               [sprint |-> i,
                returned |-> validate_capacity(s.total_hours, sprint_load(s),
                                               s.buffer_percentage)])
    /\ UNCHANGED <<analyzer, error, capacity_plan, red_flags, results,
                   clusters, resources, thresholds, resource_analysis, laterVars>>

NextQuick ==
    \/ \E b \in BufferArgs : Construct(b)
    \/ Analyze
    \/ \E i \in 1..Len(capacity_plan.sprints) : ValidateCapacity(i)

SpecQuick == InitQuick /\ [][NextQuick]_vars

(***************************************************************************)
(* Capacity analysis of a whole plan: the analyzer is constructed with the *)
(* default buffer, the plan and the red flags are the inputs.              *)
(***************************************************************************)
PlanTotals == {Float(5, 1), Float(10, 1)}
DefaultBuffer == Float(2, 10)

\* a 5h task of story ST1 in epic E1, and a 3h task of no story
PlanTasks ==
    {Task("T1", "task", Float(5, 1), "ST1", "E1", <<>>, <<>>),
     Task("T2", "task", Float(3, 1), None, None, <<>>, <<>>)}

\* red flags on a criterion of story ST1, or on a criterion that names epic E1 only
FlagLists == {<<>>, <<RedFlag("ST1", None, "critical")>>, <<RedFlag(None, "E1", "moderate")>>}

RECURSIVE SprintLists(_, _, _, _)
\* the lists of n sprints, of hours in totals, that hold at most k tasks of
\* pool between them
SprintLists(n, k, totals, pool) ==
    IF n = 0 THEN {<<>>}
    ELSE UNION {{Append(front, Sprint(SprintNames[n], t, DefaultBuffer, ts)) :
                    front \in SprintLists(n - 1, k - j, totals, pool),
                    t \in totals,
                    ts \in SeqsOf(pool, j)} : j \in 0..k}

Plans ==
    {CapacityPlan(sprints) :
        sprints \in UNION {SprintLists(n, MaxPlanTasks, PlanTotals, PlanTasks) :
                              n \in 0..MaxSprints}}

InitCapacity ==
    /\ analyzer = CapacityAnalyzer(DefaultBuffer).self
    /\ error = None
    /\ capacity_plan \in Plans
    /\ red_flags \in FlagLists
    /\ results = Absent
    /\ quick = Absent
    /\ NoDeployment
    /\ NoResources
    /\ NoLater

NextCapacity == Analyze

SpecCapacity == InitCapacity /\ [][NextCapacity]_vars

(***************************************************************************)
(* Properties of the capacity analyzer.                                    *)
(***************************************************************************)
\* the analysis of sprint i in the returned list
Analysis(i) == results[1][i]

\* the recommendations of an analysis that carry the given priority, in order
WithPriority(a, p) ==
    SelectAt(a.recommendations,
             {k \in 1..Len(a.recommendations) : a.recommendations[k].priority = p})

RECURSIVE MovedHours(_)
\* the hours of the tasks of a list of recommendations, added up exactly
MovedHours(recs) ==
    IF recs = <<>> THEN 0
    ELSE MovedHours(SubSeq(recs, 1, Len(recs) - 1)) + recs[Len(recs)].task.hours

Analysed == results # Absent

Sprints == 1..Len(capacity_plan.sprints)

\* C1: every analysed sprint is PASS exactly when its load is at most
\* total_hours * (1 - buffer), FAIL otherwise, its overflow is load minus that
\* capacity, and validate_capacity() on the same numbers returns the same
\* status and overflow.
C1_StatusAndOverflowAgree ==
    Analysed =>
        \A i \in Sprints :
            LET s == capacity_plan.sprints[i]
                load == sprint_load(s)
                net == FMul(s.total_hours, FSub(One, s.buffer_percentage))
            IN  /\ Analysis(i).status = (IF load <= net THEN PASS ELSE FAIL)
                /\ Analysis(i).overflow_hours = FSub(load, net)
                /\ (quick # Absent /\ quick[1].sprint = i) =>
                       /\ quick[1].returned.status = Analysis(i).status
                       /\ quick[1].returned.overflow = Analysis(i).overflow_hours

\* C2 as claimed: the hours moved out of a FAIL sprint never exceed its overflow.
C2_MovedWithinOverflow ==
    Analysed =>
        \A i \in Sprints :
            Analysis(i).status = FAIL =>
                MovedHours(WithPriority(Analysis(i), 2)) <= Analysis(i).overflow_hours

RECURSIVE RemainingOverflow(_, _)
\* the overflow of sprint i less the hours of its first n moves, subtracted
\* move by move as hours_to_move is (line 176)
RemainingOverflow(i, n) ==
    IF n = 0 THEN Analysis(i).overflow_hours
    ELSE FSub(RemainingOverflow(i, n - 1), WithPriority(Analysis(i), 2)[n].task.hours)

\* C2 as amended: the last move out of a FAIL sprint is made while the overflow
\* less the hours moved before it, subtracted move by move, is still positive:
\* the moved hours exceed the overflow by less than the hours of the last task.
C2_MovedOvershootsByLessThanLastMove ==
    Analysed =>
        \A i \in Sprints :
            LET moves == WithPriority(Analysis(i), 2)
            IN  (Analysis(i).status = FAIL /\ moves # <<>>) =>
                    RemainingOverflow(i, Len(moves) - 1) > 0

\* a FAIL sprint with two moves whose hours together exceed the overflow
C2_Witness ==
    /\ Analysed
    /\ \E i \in Sprints :
           /\ Analysis(i).status = FAIL
           /\ Len(WithPriority(Analysis(i), 2)) >= 2
           /\ MovedHours(WithPriority(Analysis(i), 2)) > Analysis(i).overflow_hours

\* C3: no high-risk task of a FAIL sprint is the task of one of its moves to a
\* later sprint.
C3_HighRiskNeverMoved ==
    Analysed =>
        \A i \in Sprints :
            Analysis(i).status = FAIL =>
                \A k \in 1..Len(Analysis(i).recommendations) :
                    Analysis(i).recommendations[k].priority = 2 =>
                        \A h \in 1..Len(Analysis(i).high_risk_tasks) :
                            Analysis(i).recommendations[k].task
                                # Analysis(i).high_risk_tasks[h]

\* a FAIL sprint that holds a high-risk task and still moves another task
C3_Witness ==
    /\ Analysed
    /\ \E i \in Sprints :
           /\ Analysis(i).status = FAIL
           /\ Analysis(i).high_risk_tasks # <<>>
           /\ WithPriority(Analysis(i), 2) # <<>>

\* the story and epic ids the red flags' acceptance criteria reference
FlaggedIds ==
    {red_flags[k].ac.story_id : k \in 1..Len(red_flags)} \cup
    {red_flags[k].ac.epic_id : k \in 1..Len(red_flags)}

\* C4: a task is in its sprint's high_risk_tasks iff its story id or its epic
\* id is referenced by the acceptance criterion of some red flag.
C4_HighRiskIffStoryOrEpicFlagged ==
    Analysed =>
        \A i \in Sprints :
            \A j \in 1..Len(capacity_plan.sprints[i].tasks) :
                LET t == capacity_plan.sprints[i].tasks[j]
                IN  (\E h \in 1..Len(Analysis(i).high_risk_tasks) :
                        Analysis(i).high_risk_tasks[h] = t)
                    <=> \/ (Truthy(t.story_id) /\ t.story_id \in FlaggedIds)
                        \/ (Truthy(t.epic_id) /\ t.epic_id \in FlaggedIds)

\* spare capacity of sprint j: net_capacity - sprint_load
Spare(j) ==
    FSub(net_capacity(capacity_plan.sprints[j]), sprint_load(capacity_plan.sprints[j]))

\* C5 as claimed: a FAIL sprint followed by a sprint whose spare capacity is at
\* least the overflow gets at least one move recommendation.
C5_MoveWhenSpareCoversOverflow ==
    Analysed =>
        \A i \in Sprints :
            (/\ Analysis(i).status = FAIL
             /\ \E j \in Sprints : j > i /\ Spare(j) >= Analysis(i).overflow_hours)
            => WithPriority(Analysis(i), 2) # <<>>

\* the tasks of sprint i that share no id with a high-risk task of the sprint
NotHighRisk(i) ==
    {t \in {capacity_plan.sprints[i].tasks[j] :
                j \in 1..Len(capacity_plan.sprints[i].tasks)} :
        \A h \in 1..Len(Analysis(i).high_risk_tasks) :
            Analysis(i).high_risk_tasks[h].id # t.id}

\* C5 as amended: a FAIL sprint followed by a sprint whose spare capacity is
\* positive and at least the hours of one of its tasks that is not high-risk
\* gets at least one move recommendation.
C5_MoveWhenSpareCoversATask ==
    Analysed =>
        \A i \in Sprints :
            (/\ Analysis(i).status = FAIL
             /\ \E j \in Sprints, t \in NotHighRisk(i) :
                    j > i /\ Spare(j) > 0 /\ Spare(j) >= t.hours)
            => WithPriority(Analysis(i), 2) # <<>>

\* a FAIL sprint whose only fitting task is not its largest movable one
C5_Witness ==
    /\ Analysed
    /\ \E i \in Sprints :
           /\ Analysis(i).status = FAIL
           /\ WithPriority(Analysis(i), 2) # <<>>
           /\ \E t \in NotHighRisk(i) : \A j \in Sprints : j > i => Spare(j) < t.hours

\* C6: a constructor call with a buffer below 0 or at least 1 raises the
\* configuration error and leaves no analyzer; a buffer in [0, 1) is accepted.
C6_ConstructorRejectsOutOfRange ==
    [][\A b \in BufferArgs :
          Construct(b) =>
              IF b >= 0 /\ b < Float(1, 1)
              THEN analyzer' = Present([default_buffer |-> b]) /\ error' = None
              ELSE analyzer' = Absent /\ error' = "ValueError"]_vars

\* a rejected construction
C6_Witness == error = "ValueError" /\ analyzer = Absent

\* C7: an empty plan is analysed to the empty list, and a sprint without
\* tasks is PASS at 0% utilization with no recommendations, whatever its hours.
C7_DegenerateInputs ==
    Analysed =>
        /\ capacity_plan.sprints = <<>> => results[1] = <<>>
        /\ \A i \in Sprints :
               capacity_plan.sprints[i].tasks = <<>> =>
                   /\ Analysis(i).status = PASS
                   /\ Analysis(i).utilization_percent = 0
                   /\ Analysis(i).recommendations = <<>>

\* an analysed sprint of zero hours and no tasks
C7_Witness ==
    /\ Analysed
    /\ \E i \in Sprints :
           /\ capacity_plan.sprints[i].tasks = <<>>
           /\ capacity_plan.sprints[i].total_hours = 0

(***************************************************************************)
(* analyzers/deployment_analyzer.py.  A text (a task name, a tag, a        *)
(* keyword) is a list of characters, so that "kw in text" is the substring *)
(* test it is in the code.                                                 *)
(***************************************************************************)
Upper == <<"A", "B", "C", "D", "E", "F", "G", "H", "I", "J", "K", "L", "M",
           "N", "O", "P", "Q", "R", "S", "T", "U", "V", "W", "X", "Y", "Z">>
Lower == <<"a", "b", "c", "d", "e", "f", "g", "h", "i", "j", "k", "l", "m",
           "n", "o", "p", "q", "r", "s", "t", "u", "v", "w", "x", "y", "z">>

\* str.lower()
lower(text) ==
    [i \in 1..Len(text) |->
        IF \E k \in 1..Len(Upper) : Upper[k] = text[i]
        THEN Lower[CHOOSE k \in 1..Len(Upper) : Upper[k] = text[i]]
        ELSE text[i]]

RECURSIVE join(_)
\* " ".join(tags)
join(tags) ==
    IF tags = <<>> THEN <<>>
    ELSE IF Len(tags) = 1 THEN tags[1]
    ELSE join(SubSeq(tags, 1, Len(tags) - 1)) \o <<" ">> \o tags[Len(tags)]

\* kw in text
Contains(text, kw) ==
    \E i \in 0..(Len(text) - Len(kw)) : SubSeq(text, i + 1, i + Len(kw)) = kw

DOMAIN_KEYWORDS ==
    <<
      [domain |-> "auth",
       keywords |-> <<<<"a", "u", "t", "h">>,
                      <<"l", "o", "g", "i", "n">>,
                      <<"l", "o", "g", "o", "u", "t">>,
                      <<"p", "a", "s", "s", "w", "o", "r", "d">>,
                      <<"s", "e", "s", "s", "i", "o", "n">>,
                      <<"t", "o", "k", "e", "n">>,
                      <<"o", "a", "u", "t", "h">>,
                      <<"s", "s", "o">>>>],
      [domain |-> "user",
       keywords |-> <<<<"u", "s", "e", "r">>,
                      <<"p", "r", "o", "f", "i", "l", "e">>,
                      <<"a", "c", "c", "o", "u", "n", "t">>,
                      <<"s", "e", "t", "t", "i", "n", "g", "s">>,
                      <<"p", "r", "e", "f", "e", "r", "e", "n", "c", "e", "s">>>>],
      [domain |-> "payment",
       keywords |-> <<<<"p", "a", "y", "m", "e", "n", "t">>,
                      <<"b", "i", "l", "l", "i", "n", "g">>,
                      <<"i", "n", "v", "o", "i", "c", "e">>,
                      <<"s", "u", "b", "s", "c", "r", "i", "p", "t", "i", "o", "n">>,
                      <<"c", "h", "e", "c", "k", "o", "u", "t">>,
                      <<"c", "a", "r", "t">>>>],
      [domain |-> "notification",
       keywords |-> <<<<"n", "o", "t", "i", "f", "i", "c", "a", "t", "i", "o", "n">>,
                      <<"e", "m", "a", "i", "l">>,
                      <<"s", "m", "s">>,
                      <<"p", "u", "s", "h">>,
                      <<"a", "l", "e", "r", "t">>,
                      <<"m", "e", "s", "s", "a", "g", "e">>>>],
      [domain |-> "analytics",
       keywords |-> <<<<"a", "n", "a", "l", "y", "t", "i", "c", "s">>,
                      <<"m", "e", "t", "r", "i", "c", "s">>,
                      <<"d", "a", "s", "h", "b", "o", "a", "r", "d">>,
                      <<"r", "e", "p", "o", "r", "t">>,
                      <<"c", "h", "a", "r", "t">>,
                      <<"s", "t", "a", "t", "s">>>>],
      [domain |-> "admin",
       keywords |-> <<<<"a", "d", "m", "i", "n">>,
                      <<"m", "a", "n", "a", "g", "e", "m", "e", "n", "t">>,
                      <<"c", "o", "n", "f", "i", "g", "u", "r", "a", "t", "i", "o", "n">>,
                      <<"s", "y", "s", "t", "e", "m">>>>],
      [domain |-> "api",
       keywords |-> <<<<"a", "p", "i">>,
                      <<"e", "n", "d", "p", "o", "i", "n", "t">>,
                      <<"r", "e", "s", "t">>,
                      <<"g", "r", "a", "p", "h", "q", "l">>,
                      <<"w", "e", "b", "h", "o", "o", "k">>>>],
      [domain |-> "ui",
       keywords |-> <<<<"u", "i">>,
                      <<"c", "o", "m", "p", "o", "n", "e", "n", "t">>,
                      <<"w", "i", "d", "g", "e", "t">>,
                      <<"m", "o", "d", "a", "l">>,
                      <<"f", "o", "r", "m">>,
                      <<"b", "u", "t", "t", "o", "n">>>>],
      [domain |-> "data",
       keywords |-> <<<<"d", "a", "t", "a", "b", "a", "s", "e">>,
                      <<"m", "i", "g", "r", "a", "t", "i", "o", "n">>,
                      <<"s", "c", "h", "e", "m", "a">>,
                      <<"m", "o", "d", "e", "l">>,
                      <<"e", "n", "t", "i", "t", "y">>>>],
      [domain |-> "search",
       keywords |-> <<<<"s", "e", "a", "r", "c", "h">>,
                      <<"f", "i", "l", "t", "e", "r">>,
                      <<"q", "u", "e", "r", "y">>,
                      <<"i", "n", "d", "e", "x">>>>]
    >>

\* CapacityPlan.all_tasks
RECURSIVE all_tasks(_)
all_tasks(sprints) ==
    IF sprints = <<>> THEN <<>>
    ELSE all_tasks(SubSeq(sprints, 1, Len(sprints) - 1)) \o sprints[Len(sprints)].tasks

\* DependencyGraph after _build_dependency_graph(tasks)
\* a graph in which the edges of an id are those of the last task with that id
_build_dependency_graph_overwriting(tasks) ==
    LET ids == {tasks[i].id : i \in 1..Len(tasks)}
        deps == UNION {{tasks[i].dependencies[k] : k \in 1..Len(tasks[i].dependencies)} :
                          i \in 1..Len(tasks)}
        last(n) == CHOOSE i \in 1..Len(tasks) :
                       tasks[i].id = n /\ \A j \in (i + 1)..Len(tasks) : tasks[j].id # n
    IN  [nodes |-> ids \cup deps,
         edges |-> [n \in ids \cup deps |->
                       IF n \in ids
                       THEN {tasks[last(n)].dependencies[k] :
                                k \in 1..Len(tasks[last(n)].dependencies)}
                       ELSE {}]]

_build_dependency_graph(tasks) ==
    LET ids == {tasks[i].id : i \in 1..Len(tasks)}
        deps == UNION {{tasks[i].dependencies[k] : k \in 1..Len(tasks[i].dependencies)} :
                          i \in 1..Len(tasks)}
    IN  [nodes |-> ids \cup deps,
         edges |-> [n \in ids \cup deps |->
                       UNION {{tasks[i].dependencies[k] :
                                  k \in 1..Len(tasks[i].dependencies)} :
                              i \in {j \in 1..Len(tasks) : tasks[j].id = n}}]]

\* every node counted as independent
get_all_tasks(graph) == graph.nodes

get_independent_tasks(graph) == {t \in graph.nodes : graph.edges[t] = {}}

\* the last domain with a matching keyword wins
_identify_domain_last(task) ==
    LET text == lower(task.name \o <<" ">> \o join(task.tags))
        hits == {d \in 1..Len(DOMAIN_KEYWORDS) :
                    \E k \in 1..Len(DOMAIN_KEYWORDS[d].keywords) :
                        Contains(text, DOMAIN_KEYWORDS[d].keywords[k])}
    IN  IF hits # {} THEN DOMAIN_KEYWORDS[CHOOSE d \in hits : \A e \in hits : e <= d].domain
        ELSE IF Truthy(task.story_id) THEN "story_" \o task.story_id
        ELSE "general"

_identify_domain(task) ==
    LET text == lower(task.name \o <<" ">> \o join(task.tags))
        hits == {d \in 1..Len(DOMAIN_KEYWORDS) :
                    \E k \in 1..Len(DOMAIN_KEYWORDS[d].keywords) :
                        Contains(text, DOMAIN_KEYWORDS[d].keywords[k])}
    IN  IF hits # {} THEN DOMAIN_KEYWORDS[Min(hits)].domain
        ELSE IF Truthy(task.story_id) THEN "story_" \o task.story_id
        ELSE "general"

RECURSIVE _cluster_by_domain(_, _)
\* the dict domain -> tasks as a list of (domain, tasks) in insertion order
_cluster_by_domain(tasks, independent_tasks) ==
    IF tasks = <<>> THEN <<>>
    ELSE LET front == _cluster_by_domain(SubSeq(tasks, 1, Len(tasks) - 1),
                                         independent_tasks)
             task == tasks[Len(tasks)]
             domain == _identify_domain(task)
             at == {k \in 1..Len(front) : front[k].domain = domain}
         IN  IF task.id \notin independent_tasks THEN front
             ELSE IF at = {} THEN Append(front, [domain |-> domain, tasks |-> <<task>>])
             ELSE [front EXCEPT ![Min(at)].tasks = Append(@, task)]

RECURSIVE sorted_by_size(_)
\* sorted(domain_clusters.items(), key=lambda x: len(x[1]), reverse=True): stable
sorted_by_size(items) ==
    IF items = <<>> THEN <<>>
    ELSE LET front == sorted_by_size(SubSeq(items, 1, Len(items) - 1))
             last == items[Len(items)]
             k == Cardinality({i \in 1..Len(front) :
                                  Len(front[i].tasks) >= Len(last.tasks)})
         IN  SubSeq(front, 1, k) \o <<last>> \o SubSeq(front, k + 1, Len(front))

FEATURE_FLAG == "feature_flag"
FULL_DEPLOYMENT == "full_deployment"

_recommend_strategy(domain) ==
    IF domain \in {"ui", "user", "notification", "analytics", "search"} THEN FEATURE_FLAG
    ELSE IF domain \in {"auth", "payment", "data", "api", "admin"} THEN FULL_DEPLOYMENT
    ELSE FEATURE_FLAG

\* name_map.get(domain, ...); the title-cased form of an unmapped domain is
\* kept as the pair ("title", domain)
_format_cluster_name(domain) ==
    CASE domain = "auth" -> "Authentication & Security"
      [] domain = "user" -> "User Profile & Settings"
      [] domain = "payment" -> "Payment & Billing"
      [] domain = "notification" -> "Notifications & Messaging"
      [] domain = "analytics" -> "Analytics & Reporting"
      [] domain = "admin" -> "Administration & Config"
      [] domain = "api" -> "API Endpoints"
      [] domain = "ui" -> "UI Components"
      [] domain = "data" -> "Data & Migrations"
      [] domain = "search" -> "Search & Filtering"
      [] domain = "general" -> "General Features"
      [] OTHER -> <<"title", domain>>

\* the ids a cluster's tasks depend on outside the cluster, as a set
_find_cluster_dependencies(cluster_tasks) ==
    LET cluster_ids == {cluster_tasks[i].id : i \in 1..Len(cluster_tasks)}
    IN  UNION {{cluster_tasks[i].dependencies[k] :
                   k \in 1..Len(cluster_tasks[i].dependencies)} :
               i \in 1..Len(cluster_tasks)} \ cluster_ids

_generate_rollback_plan(strategy) ==
    IF strategy = FEATURE_FLAG THEN "Disable feature flag to instantly revert"
    ELSE "Redeploy previous version via deployment pipeline"

_create_deployment_clusters(domain_clusters) ==
    LET kept == SelectAt(sorted_by_size(domain_clusters),
                         {k \in 1..Len(domain_clusters) :
                             ~(Len(sorted_by_size(domain_clusters)[k].tasks) < 2)})
    IN  [week \in 1..Len(kept) |->
            [name |-> _format_cluster_name(kept[week].domain),
             tasks |-> kept[week].tasks,
             strategy |-> _recommend_strategy(kept[week].domain),
             deploy_timing |-> <<"Week", week>>,
             dependencies |-> _find_cluster_dependencies(kept[week].tasks),
             rollback_plan |->
                 _generate_rollback_plan(_recommend_strategy(kept[week].domain))]]

\* DeploymentAnalyzer.analyze(capacity_plan)
deployment_analyze(plan) ==
    LET tasks == all_tasks(plan.sprints)
        graph == _build_dependency_graph(tasks)
    IN  _create_deployment_clusters(
            _cluster_by_domain(tasks, get_independent_tasks(graph)))

(***************************************************************************)
(* Deployment clustering of a plan.                                        *)
(***************************************************************************)
MaxDeployTasks == 3

DeployTasks ==
    { \* auth before user
     Task("T1", <<"U", "s", "e", "r", " ", "L", "o", "g", "i", "n">>, Float(4, 1), None, None, <<>>, <<>>),
     \* auth before ui
     Task("T2", <<"L", "o", "g", "i", "n", " ", "f", "o", "r", "m">>, Float(4, 1), "ST1", None, <<>>, <<>>),
     \* ui, by the substring ui of build
     Task("T3", <<"B", "u", "i", "l", "d">>, Float(4, 1), None, None, <<>>, <<>>),
     \* ui, by its tag
     Task("T4", <<"M", "i", "s", "c">>, Float(4, 1), None, None, <<>>, <<<<"U", "I">>>>),
     \* story_ST1
     Task("T5", <<"M", "i", "s", "c">>, Float(4, 1), "ST1", None, <<>>, <<>>),
     \* general
     Task("T6", <<"M", "i", "s", "c">>, Float(4, 1), None, None, <<>>, <<>>),
     \* a second task T1, which depends on T2
     Task("T1", <<"L", "o", "g", "i", "n">>, Float(4, 1), None, None, <<"T2">>, <<>>),
     \* a second task T2, which depends on no task of the plan
     Task("T2", <<"T", "o", "k", "e", "n">>, Float(4, 1), None, None, <<"X9">>, <<>>),
     \* a second task T3, which depends on itself
     Task("T3", <<"B", "u", "i", "l", "d">>, Float(4, 1), None, None, <<"T3">>, <<>>)}

DeployPlans ==
    {CapacityPlan(<<Sprint(SprintNames[1], Float(10, 1), DefaultBuffer, ts)>>) :
        ts \in SeqsUpTo(DeployTasks, MaxDeployTasks)}
    \cup
    {CapacityPlan(<<Sprint(SprintNames[1], Float(10, 1), DefaultBuffer, <<t>>),
                    Sprint(SprintNames[2], Float(10, 1), DefaultBuffer, ts)>>) :
        t \in DeployTasks, ts \in SeqsOf(DeployTasks, MaxDeployTasks - 1)}

NoCapacity ==
    /\ analyzer = Absent
    /\ error = None
    /\ red_flags = <<>>
    /\ results = Absent
    /\ quick = Absent

InitDeployment ==
    /\ capacity_plan \in DeployPlans
    /\ clusters = Absent
    /\ NoCapacity
    /\ NoResources
    /\ NoLater

\* clusters = DeploymentAnalyzer().analyze(capacity_plan)
DeploymentAnalyze ==
    /\ clusters = Absent
    /\ clusters' = Present(deployment_analyze(capacity_plan))
    /\ UNCHANGED <<analyzer, error, capacity_plan, red_flags, results, quick,
                   resources, thresholds, resource_analysis, laterVars>>

NextDeployment == DeploymentAnalyze

SpecDeployment == InitDeployment /\ [][NextDeployment]_vars

\* the tasks of the plan, in plan order
AllTasks == all_tasks(capacity_plan.sprints)

PlanTaskSet == {AllTasks[i] : i \in 1..Len(AllTasks)}

\* the tasks that some returned cluster holds
ClusteredTasks ==
    UNION {{clusters[1][c].tasks[i] : i \in 1..Len(clusters[1][c].tasks)} :
              c \in 1..Len(clusters[1])}

\* the positions of the plan's tasks without dependencies that fall in domain d
IndependentIn(d) ==
    {i \in 1..Len(AllTasks) :
        AllTasks[i].dependencies = <<>> /\ _identify_domain(AllTasks[i]) = d}

\* C8: every cluster has at least 2 tasks, each a task of the plan with no
\* dependencies and none depending on a task of its cluster; a domain with
\* exactly one independent task yields no cluster.
C8_ClustersOfIndependentTasks ==
    clusters # Absent =>
        /\ \A c \in 1..Len(clusters[1]) :
               LET ts == clusters[1][c].tasks
               IN  /\ Len(ts) >= 2
                   /\ \A i \in 1..Len(ts) :
                          /\ ts[i] \in PlanTaskSet
                          /\ ts[i].dependencies = <<>>
                          /\ \A j \in 1..Len(ts) :
                                 \A k \in 1..Len(ts[i].dependencies) :
                                     ts[i].dependencies[k] # ts[j].id
        /\ \A t \in PlanTaskSet :
               Cardinality(IndependentIn(_identify_domain(t))) = 1 =>
                   \A u \in ClusteredTasks : _identify_domain(u) # _identify_domain(t)

\* a plan that yields a cluster and has a task that no cluster holds
C8_Witness ==
    /\ clusters # Absent
    /\ clusters[1] # <<>>
    /\ PlanTaskSet \ ClusteredTasks # {}

\* C28: every cluster that analyze() returns has an empty list of external
\* dependencies, whatever the plan: dependencies on ids that no task has and
\* several tasks with one id included.
C28_ClusterDependenciesEmpty ==
    clusters # Absent =>
        \A c \in 1..Len(clusters[1]) : clusters[1][c].dependencies = {}

\* a plan that yields a cluster and has a task depending on an id that no task
\* of the plan has
C28_Witness ==
    /\ clusters # Absent
    /\ clusters[1] # <<>>
    /\ \E t \in PlanTaskSet :
           \E k \in 1..Len(t.dependencies) :
               \A u \in PlanTaskSet : u.id # t.dependencies[k]

(***************************************************************************)
(* analyzers/resource_analyzer.py.  The resources dict is a list of        *)
(* (name, hours_per_sprint) in insertion order; of ResourceMetrics the     *)
(* fields that do not pass through round() are kept.                       *)
(***************************************************************************)
ResourceAnalyzer(over_threshold, under_threshold, bottleneck_epic_threshold) ==
    [over_threshold |-> over_threshold,
     under_threshold |-> under_threshold,
     bottleneck_epic_threshold |-> bottleneck_epic_threshold]

RECURSIVE tagged(_, _, _)
\* lines 103-107 for one task: an entry (sprint name, task) per tag equal to name
tagged(sprint_name, task, name) ==
    IF task.tags = <<>> THEN <<>>
    ELSE tagged(sprint_name,
                [task EXCEPT !.tags = SubSeq(task.tags, 1, Len(task.tags) - 1)], name)
         \o (IF task.tags[Len(task.tags)] = name
             THEN <<[sprint_name |-> sprint_name, hours |-> task.hours,
                     story_id |-> task.story_id, epic_id |-> task.epic_id]>>
             ELSE <<>>)

RECURSIVE tagged_in(_, _, _)
\* the entries of the tasks of one sprint
tagged_in(sprint_name, tasks, name) ==
    IF tasks = <<>> THEN <<>>
    ELSE tagged_in(sprint_name, SubSeq(tasks, 1, Len(tasks) - 1), name)
         \o tagged(sprint_name, tasks[Len(tasks)], name)

RECURSIVE resource_tasks(_, _)
\* resource_tasks[name] after lines 100-107
resource_tasks(sprints, name) ==
    IF sprints = <<>> THEN <<>>
    ELSE resource_tasks(SubSeq(sprints, 1, Len(sprints) - 1), name)
         \o tagged_in(sprints[Len(sprints)].name, sprints[Len(sprints)].tasks, name)

\* sprint_hours.get(sprint_name, 0.0) after the loop of lines 148-149
sprint_hours(tasks_with_sprints, sprint_name) ==
    FSum(SelectAt([i \in 1..Len(tasks_with_sprints) |-> tasks_with_sprints[i].hours],
                  {i \in 1..Len(tasks_with_sprints) :
                      tasks_with_sprints[i].sprint_name = sprint_name}))

\* metrics that call a resource under-allocated when its ratio is below
\* under_threshold in some sprint
_compute_resource_metrics_lowest(self, name, hours_per_sprint, tasks_with_sprints, sprints) ==
    LET allocated == [i \in 1..Len(sprints) |->
                         sprint_hours(tasks_with_sprints, sprints[i].name)]
        over_allocated_sprints ==
            SelectAt([i \in 1..Len(sprints) |-> sprints[i].name],
                     {i \in 1..Len(sprints) :
                         /\ hours_per_sprint > 0
                         /\ FDiv(allocated[i], hours_per_sprint) > self.over_threshold})
    IN  [name |-> name,
         is_over_allocated |-> Len(over_allocated_sprints) > 0,
         is_under_allocated |->
             \E i \in 1..Len(sprints) :
                 (IF hours_per_sprint > 0 THEN FDiv(allocated[i], hours_per_sprint) ELSE 0)
                     < self.under_threshold,
         over_allocated_sprints |-> over_allocated_sprints,
         task_count |-> Len(tasks_with_sprints),
         unique_stories |->
             Cardinality({tasks_with_sprints[i].story_id :
                             i \in {j \in 1..Len(tasks_with_sprints) :
                                       Truthy(tasks_with_sprints[j].story_id)}}),
         unique_epics |->
             Cardinality({tasks_with_sprints[i].epic_id :
                             i \in {j \in 1..Len(tasks_with_sprints) :
                                       Truthy(tasks_with_sprints[j].epic_id)}})]

_compute_resource_metrics(self, name, hours_per_sprint, tasks_with_sprints, sprints) ==
    LET allocated == [i \in 1..Len(sprints) |->
                         sprint_hours(tasks_with_sprints, sprints[i].name)]
        total_allocated == FSum(allocated)
        total_available == FMul(hours_per_sprint, Float(Len(sprints), 1))
        over_allocated_sprints ==
            SelectAt([i \in 1..Len(sprints) |-> sprints[i].name],
                     {i \in 1..Len(sprints) :
                         /\ hours_per_sprint > 0
                         /\ FDiv(allocated[i], hours_per_sprint) > self.over_threshold})
        avg_util == IF total_available > 0
                    THEN FDiv(total_allocated, total_available) ELSE 0
    IN  [name |-> name,
         is_over_allocated |-> Len(over_allocated_sprints) > 0,
         is_under_allocated |-> avg_util < self.under_threshold,
         over_allocated_sprints |-> over_allocated_sprints,
         task_count |-> Len(tasks_with_sprints),
         unique_stories |->
             Cardinality({tasks_with_sprints[i].story_id :
                             i \in {j \in 1..Len(tasks_with_sprints) :
                                       Truthy(tasks_with_sprints[j].story_id)}}),
         unique_epics |->
             Cardinality({tasks_with_sprints[i].epic_id :
                             i \in {j \in 1..Len(tasks_with_sprints) :
                                       Truthy(tasks_with_sprints[j].epic_id)}})]

\* the warning of lines 206-230 for one resource, or none
_detect_bottlenecks(self, name, tasks_with_sprints) ==
    LET epic_ids == {tasks_with_sprints[i].epic_id :
                        i \in {j \in 1..Len(tasks_with_sprints) :
                                  Truthy(tasks_with_sprints[j].epic_id)}}
        story_ids == {tasks_with_sprints[i].story_id :
                         i \in {j \in 1..Len(tasks_with_sprints) :
                                   Truthy(tasks_with_sprints[j].story_id)}}
        sprint_names == {tasks_with_sprints[i].sprint_name :
                            i \in 1..Len(tasks_with_sprints)}
    IN  IF Cardinality(epic_ids) >= self.bottleneck_epic_threshold
        THEN <<[resource_name |-> name,
                epic_count |-> Cardinality(epic_ids),
                story_count |-> Cardinality(story_ids),
                sprint_count |-> Cardinality(sprint_names)]>>
        ELSE <<>>

RECURSIVE bottlenecks(_, _, _)
bottlenecks(self, res, sprints) ==
    IF res = <<>> THEN <<>>
    ELSE bottlenecks(self, SubSeq(res, 1, Len(res) - 1), sprints)
         \o _detect_bottlenecks(self, res[Len(res)].name,
                                resource_tasks(sprints, res[Len(res)].name))

\* ResourceAnalyzer.analyze(resources, sprints)
resource_analyze(self, res, sprints) ==
    IF res = <<>> \/ sprints = <<>>
    THEN [resource_metrics |-> <<>>, over_allocated |-> <<>>, under_allocated |-> <<>>,
          bottleneck_warnings |-> <<>>, total_resources |-> 0]
    ELSE LET metrics_list ==
                 [r \in 1..Len(res) |->
                     _compute_resource_metrics(
                         self, res[r].name, res[r].hours_per_sprint,
                         resource_tasks(sprints, res[r].name), sprints)]
         IN  [resource_metrics |-> metrics_list,
              over_allocated |->
                  SelectAt([r \in 1..Len(res) |-> res[r].name],
                           {r \in 1..Len(res) : metrics_list[r].is_over_allocated}),
              under_allocated |->
                  SelectAt([r \in 1..Len(res) |-> res[r].name],
                           {r \in 1..Len(res) : metrics_list[r].is_under_allocated}),
              bottleneck_warnings |-> bottlenecks(self, res, sprints),
              total_resources |-> Len(res)]

(***************************************************************************)
(* Resource analysis: an analyzer with its thresholds, a resources dict    *)
(* and the sprints of a plan; analyze() runs once.                         *)
(***************************************************************************)
bob == <<"b", "o", "b">>
amy == <<"a", "m", "y">>
zed == <<"z", "e", "d">>

\* ResourceAnalyzer() and ResourceAnalyzer(0.5, 0.25, 2)
ThresholdArgs ==
    {ResourceAnalyzer(Float(1, 1), Float(1, 2), 3),
     ResourceAnalyzer(Float(1, 2), Float(1, 4), 2)}

Resource(name, hours_per_sprint) ==
    [name |-> name, hours_per_sprint |-> hours_per_sprint]

\* the resources dicts: empty, bob alone (with no hours, 4 or 8), bob and amy
ResourceDicts ==
    {<<>>, <<Resource(bob, 0)>>, <<Resource(bob, Float(4, 1))>>,
     <<Resource(bob, Float(8, 1))>>,
     <<Resource(bob, Float(4, 1)), Resource(amy, Float(8, 1))>>}

\* a task of bob, a task shared by amy and bob, a task with an unmatched tag
ResourceTasks ==
    {Task("T1", "task", Float(5, 1), "ST1", "E1", <<>>, <<bob>>),
     Task("T2", "task", Float(3, 1), "ST2", "E2", <<>>, <<amy, bob>>),
     Task("T3", "task", Float(5, 1), None, None, <<>>, <<zed>>)}

ResourcePlans ==
    {CapacityPlan(sprints) :
        sprints \in UNION {SprintLists(n, MaxPlanTasks, {Float(10, 1)}, ResourceTasks) :
                              n \in 0..MaxSprints}}

InitResource ==
    /\ thresholds \in {Present(t) : t \in ThresholdArgs}
    /\ resources \in {Present(r) : r \in ResourceDicts}
    /\ capacity_plan \in ResourcePlans
    /\ resource_analysis = Absent
    /\ NoCapacity
    /\ clusters = Absent
    /\ NoLater

\* ResourceAnalyzer.analyze(resources, capacity_plan.sprints)
ResourceAnalyze ==
    /\ resource_analysis = Absent
    /\ resource_analysis' =
           Present(resource_analyze(thresholds[1], resources[1], capacity_plan.sprints))
    /\ UNCHANGED <<analyzer, error, capacity_plan, red_flags, results, quick,
                   clusters, resources, thresholds, laterVars>>

NextResource == ResourceAnalyze

SpecResource == InitResource /\ [][NextResource]_vars

\* the hours tagged with the name of resource r in sprint i, and over the plan
Allocated(r, i) ==
    sprint_hours(resource_tasks(capacity_plan.sprints, resources[1][r].name),
                 capacity_plan.sprints[i].name)

TotalAllocated(r) ==
    FSum([i \in 1..Len(capacity_plan.sprints) |-> Allocated(r, i)])

TotalAvailable(r) ==
    FMul(resources[1][r].hours_per_sprint, Float(Len(capacity_plan.sprints), 1))

\* the resources analyze() computed metrics for
Measured ==
    IF resource_analysis = Absent THEN {}
    ELSE 1..Len(resource_analysis[1].resource_metrics)

Metrics(r) == resource_analysis[1].resource_metrics[r]

Listed(names) == {names[i] : i \in 1..Len(names)}

\* C9: for every resource of a ResourceAnalysis, is_over_allocated holds iff
\* in some sprint allocated / available hours is strictly above
\* over_threshold, is_under_allocated holds iff total allocated / total
\* available hours is strictly below under_threshold (a quotient by zero
\* hours is no number, so it is neither above nor below a threshold), and the
\* over_allocated and under_allocated lists name exactly the flagged resources.
C9_FlagsIffRatios ==
    \A r \in Measured :
        /\ Metrics(r).is_over_allocated <=>
               \E i \in 1..Len(capacity_plan.sprints) :
                   /\ resources[1][r].hours_per_sprint # 0
                   /\ FDiv(Allocated(r, i), resources[1][r].hours_per_sprint)
                          > thresholds[1].over_threshold
        /\ Metrics(r).is_under_allocated <=>
               /\ TotalAvailable(r) # 0
               /\ FDiv(TotalAllocated(r), TotalAvailable(r))
                      < thresholds[1].under_threshold
        /\ Metrics(r).name \in Listed(resource_analysis[1].over_allocated)
               <=> Metrics(r).is_over_allocated
        /\ Metrics(r).name \in Listed(resource_analysis[1].under_allocated)
               <=> Metrics(r).is_under_allocated

\* C10: a resource with zero available hours gets neither flag from
\* analyze(), whatever tasks carry its name as a tag.
C10_ZeroHoursNeitherFlag ==
    \A r \in Measured :
        resources[1][r].hours_per_sprint = 0 =>
            /\ ~Metrics(r).is_over_allocated
            /\ ~Metrics(r).is_under_allocated

\* C29: with the default thresholds (over 1.0, under 0.5) no resource is named
\* in both the over_allocated and the under_allocated list of an analysis.
C29_OverAndUnderDisjoint ==
    (/\ resource_analysis # Absent
     /\ thresholds[1] = ResourceAnalyzer(Float(1, 1), Float(1, 2), 3))
        => Listed(resource_analysis[1].over_allocated)
               \cap Listed(resource_analysis[1].under_allocated) = {}

\* the resources named in both lists
InBothLists ==
    {r \in Measured :
        /\ Metrics(r).name \in Listed(resource_analysis[1].over_allocated)
        /\ Metrics(r).name \in Listed(resource_analysis[1].under_allocated)}

\* C29 as the code has it: a resource is named in both lists exactly when it
\* has hours, some sprint's allocated / available ratio is above
\* over_threshold and the ratio over all sprints is below under_threshold;
\* with the default thresholds that never happens in a plan of one sprint.
C29_BothIffPeakOverAndAverageUnder ==
    /\ \A r \in Measured :
           r \in InBothLists <=>
               /\ resources[1][r].hours_per_sprint > 0
               /\ \E i \in 1..Len(capacity_plan.sprints) :
                      FDiv(Allocated(r, i), resources[1][r].hours_per_sprint)
                          > thresholds[1].over_threshold
               /\ FDiv(TotalAllocated(r), TotalAvailable(r))
                      < thresholds[1].under_threshold
    /\ (/\ thresholds[1] = ResourceAnalyzer(Float(1, 1), Float(1, 2), 3)
        /\ Len(capacity_plan.sprints) = 1) => InBothLists = {}

\* with the default thresholds, a resource over-allocated in one sprint and
\* under-allocated over the plan
C29_Witness ==
    /\ resource_analysis # Absent
    /\ thresholds[1] = ResourceAnalyzer(Float(1, 1), Float(1, 2), 3)
    /\ InBothLists # {}

(***************************************************************************)
(* analyzers/velocity_analyzer.py.                                         *)
(***************************************************************************)
\* the variables of the capacity, deployment and resource analyzers
coreVars == <<analyzer, error, red_flags, results, quick,
              clusters, resources, thresholds, resource_analysis>>

NoCore == NoCapacity /\ NoDeployment /\ NoResources

\* the integer nearest to n / d (d > 0), ties to the even integer
NearestEven(n, d) ==
    LET a == Abs(n)
        q == a \div d
        r == a % d
        m == IF 2 * r > d \/ (2 * r = d /\ q % 2 = 1) THEN q + 1 ELSE q
    IN  IF n < 0 THEN -m ELSE m

\* round(x, ndigits): the float nearest to the decimal with ndigits places
\* that is nearest to x
round(x, ndigits) ==
    Round(NearestEven(x * 10^ndigits, One) * One, 10^ndigits)

RECURSIVE ISqrt(_, _, _)
\* the integer square root of n, searched between lo and hi
ISqrt(n, lo, hi) ==
    IF lo >= hi THEN lo
    ELSE LET mid == (lo + hi + 1) \div 2
         IN  IF mid * mid <= n THEN ISqrt(n, mid, hi) ELSE ISqrt(n, lo, mid - 1)

\* math.sqrt(x), x >= 0: the float nearest to the square root, rounded from
\* the root taken to half the spacing of the smallest values, with a sticky
\* bit for what is cut off
sqrt(x) ==
    LET n == x * One * 4
        root == ISqrt(n, 0, 2^15)
        sticky == IF root * root = n THEN 0 ELSE 1
    IN  Round(2 * root + sticky, 4)

IMPROVING == "improving"
DECLINING == "declining"
STABLE == "stable"

VelocityAnalyzer(trend_threshold) == [trend_threshold |-> trend_threshold]

_compute_sprint_velocities(sprints) ==
    [i \in 1..Len(sprints) |->
        LET capacity == net_capacity(sprints[i])
            load == sprint_load(sprints[i])
            ratio == IF capacity > 0 THEN FDiv(load, capacity) ELSE 0
        IN  [sprint_name |-> sprints[i].name,
             capacity |-> round(capacity, 2),
             load |-> round(load, 2),
             velocity_ratio |-> round(ratio, 4),
             unused_capacity |-> round(FSub(capacity, load), 2)]]

_mean(values) ==
    IF values = <<>> THEN 0 ELSE FDiv(FSum(values), Float(Len(values), 1))

_variance(values, mean) ==
    IF Len(values) < 2 THEN 0
    ELSE FDiv(FSum([i \in 1..Len(values) |->
                       FMul(FSub(values[i], mean), FSub(values[i], mean))]),
              Float(Len(values), 1))

_linear_regression_slope(values) ==
    LET n == Len(values)
        x_mean == FDiv(Float(n - 1, 1), Float(2, 1))
        y_mean == FDiv(FSum(values), Float(n, 1))
        numerator == FSum([i \in 1..n |->
                              FMul(FSub(Float(i - 1, 1), x_mean),
                                   FSub(values[i], y_mean))])
        denominator == FSum([i \in 1..n |->
                                FMul(FSub(Float(i - 1, 1), x_mean),
                                     FSub(Float(i - 1, 1), x_mean))])
    IN  IF n < 2 THEN 0
        ELSE IF denominator = 0 THEN 0
        ELSE FDiv(numerator, denominator)

\* a classification that counts a slope equal to the threshold as a trend
_classify_trend_inclusive(self, slope) ==
    IF slope >= self.trend_threshold THEN IMPROVING
    ELSE IF slope <= -self.trend_threshold THEN DECLINING
    ELSE STABLE

_classify_trend(self, slope) ==
    IF slope > self.trend_threshold THEN IMPROVING
    ELSE IF slope < -self.trend_threshold THEN DECLINING
    ELSE STABLE

\* a list left in the order given
unsorted(values) == values

RECURSIVE sorted(_)
\* sorted(loads): ascending
sorted(values) ==
    IF values = <<>> THEN <<>>
    ELSE LET front == sorted(SubSeq(values, 1, Len(values) - 1))
             last == values[Len(values)]
             k == Cardinality({i \in 1..Len(front) : front[i] <= last})
         IN  SubSeq(front, 1, k) \o <<last>> \o SubSeq(front, k + 1, Len(front))

\* _percentile(sorted_values, n, p); lo and hi are the code's lower and upper,
\* and list positions are 1-based here
_percentile(sorted_values, n, p) ==
    IF n = 1 THEN sorted_values[1]
    ELSE LET rank == FMul(p, Float(n - 1, 1))
             lo == rank \div One
             hi == IF lo + 1 < n - 1 THEN lo + 1 ELSE n - 1
             fraction == FSub(rank, Float(lo, 1))
         IN  FAdd(sorted_values[lo + 1],
                  FMul(fraction, FSub(sorted_values[hi + 1], sorted_values[lo + 1])))

_compute_confidence_intervals(loads) ==
    IF loads = <<>> THEN [p50 |-> 0, p85 |-> 0, p95 |-> 0]
    ELSE LET sorted_loads == sorted(loads)
             n == Len(sorted_loads)
         IN  [p50 |-> round(_percentile(sorted_loads, n, Float(50, 100)), 2),
              p85 |-> round(_percentile(sorted_loads, n, Float(85, 100)), 2),
              p95 |-> round(_percentile(sorted_loads, n, Float(95, 100)), 2)]

\* VelocityAnalyzer.analyze(sprints)
velocity_analyze(self, sprints) ==
    IF sprints = <<>>
    THEN [sprint_velocities |-> <<>>, mean_velocity |-> 0, velocity_std_dev |-> 0,
          velocity_variance |-> 0, trend |-> STABLE, trend_slope |-> 0,
          confidence_intervals |-> [p50 |-> 0, p85 |-> 0, p95 |-> 0],
          sprint_count |-> 0]
    ELSE LET sprint_velocities == _compute_sprint_velocities(sprints)
             ratios == [i \in 1..Len(sprints) |-> sprint_velocities[i].velocity_ratio]
             mean_vel == _mean(ratios)
             variance == _variance(ratios, mean_vel)
             std_dev == sqrt(variance)
             trend_slope == _linear_regression_slope(ratios)
             loads == [i \in 1..Len(sprints) |-> sprint_load(sprints[i])]
         IN  [sprint_velocities |-> sprint_velocities,
              mean_velocity |-> round(mean_vel, 4),
              velocity_std_dev |-> round(std_dev, 4),
              velocity_variance |-> round(variance, 4),
              trend |-> _classify_trend(self, trend_slope),
              trend_slope |-> round(trend_slope, 4),
              confidence_intervals |-> _compute_confidence_intervals(loads),
              sprint_count |-> Len(sprints)]

(***************************************************************************)
(* Velocity analysis: an analyzer with its trend threshold and a list of   *)
(* sprints; analyze() runs once.                                           *)
(***************************************************************************)
MaxVelocitySprints == 4

\* VelocityAnalyzer(), VelocityAnalyzer(0.0) and VelocityAnalyzer(-0.1): the
\* constructor stores any threshold
TrendThresholds == {Float(2, 100), 0, Float(-1, 10)}

\* sprints with one task that fills them (loads 40, 60, 80 and 100 at no
\* buffer), and a sprint of no hours with a task of 0.125 hours
VelocitySprint(name, total_hours, hours) ==
    Sprint(name, total_hours, 0, <<Task("T1", "task", hours, None, None, <<>>, <<>>)>>)

VelocityShapes ==
    {<<Float(40, 1), Float(40, 1)>>, <<Float(60, 1), Float(60, 1)>>,
     <<Float(80, 1), Float(80, 1)>>, <<Float(100, 1), Float(100, 1)>>,
     <<0, Float(125, 1000)>>}

VelocityPlans ==
    {CapacityPlan([i \in 1..Len(shapes) |->
                      VelocitySprint(SprintNames[i], shapes[i][1], shapes[i][2])]) :
        shapes \in SeqsUpTo(VelocityShapes, MaxVelocitySprints)}

InitVelocity ==
    /\ velocity_analyzer \in {Present(VelocityAnalyzer(t)) : t \in TrendThresholds}
    /\ velocity_analysis = Absent
    /\ capacity_plan \in VelocityPlans
    /\ NoCore
    /\ NoScorer
    /\ NoRisk
    /\ NoBackend

\* velocity_analysis = velocity_analyzer.analyze(capacity_plan.sprints)
VelocityAnalyze ==
    /\ velocity_analysis = Absent
    /\ velocity_analysis' =
           Present(velocity_analyze(velocity_analyzer[1], capacity_plan.sprints))
    /\ UNCHANGED <<capacity_plan, coreVars, velocity_analyzer, scorerVars,
                   riskVars, backendVars>>

NextVelocity == VelocityAnalyze

SpecVelocity == InitVelocity /\ [][NextVelocity]_vars

\* analyze() has returned for a plan of exactly one sprint
SingleSprintAnalysed ==
    velocity_analysis # Absent /\ Len(capacity_plan.sprints) = 1

\* the confidence intervals of the returned analysis
Bands == velocity_analysis[1].confidence_intervals

\* the raw loads of the sprints handed in, in plan order
Loads == [i \in 1..Len(capacity_plan.sprints) |-> sprint_load(capacity_plan.sprints[i])]

\* C11 as claimed: on a single sprint the variance, the standard deviation
\* and the slope are 0, the trend is STABLE, and p50 = p85 = p95 = the load
\* of the sprint.
C11_SingleSprintDegenerate ==
    SingleSprintAnalysed =>
        /\ velocity_analysis[1].velocity_variance = 0
        /\ velocity_analysis[1].velocity_std_dev = 0
        /\ velocity_analysis[1].trend_slope = 0
        /\ velocity_analysis[1].trend = STABLE
        /\ Bands.p50 = Loads[1] /\ Bands.p85 = Loads[1] /\ Bands.p95 = Loads[1]

\* C11 as amended: on a single sprint the variance, the standard deviation
\* and the slope are 0, the trend is STABLE when the trend threshold is not
\* negative, and p50 = p85 = p95 = the load of the sprint rounded to two
\* decimals, which is the load reported for the sprint.
C11_SingleSprintDegenerateRounded ==
    SingleSprintAnalysed =>
        /\ velocity_analysis[1].velocity_variance = 0
        /\ velocity_analysis[1].velocity_std_dev = 0
        /\ velocity_analysis[1].trend_slope = 0
        /\ velocity_analyzer[1].trend_threshold >= 0 =>
               velocity_analysis[1].trend = STABLE
        /\ Bands.p50 = round(Loads[1], 2)
        /\ Bands.p85 = Bands.p50 /\ Bands.p95 = Bands.p50
        /\ velocity_analysis[1].sprint_velocities[1].load = Bands.p50

\* a single sprint of zero capacity whose load has more than two decimals,
\* analysed at a threshold of zero
C11_Witness ==
    /\ SingleSprintAnalysed
    /\ net_capacity(capacity_plan.sprints[1]) = 0
    /\ velocity_analyzer[1].trend_threshold = 0
    /\ Bands.p50 # Loads[1]

VelocityAnalysed == velocity_analysis # Absent /\ capacity_plan.sprints # <<>>

\* the raw loads in ascending order, and the smallest and the largest of them
SortedLoads == sorted(Loads)
MinLoad == SortedLoads[1]
MaxLoad == SortedLoads[Len(SortedLoads)]

\* the positions (1-based) of the order statistics next to the rank
\* p * (n - 1), p being p100 hundredths; the rank is taken exactly
RankBelow(p100) == (p100 * (Len(Loads) - 1)) \div 100 + 1
RankAbove(p100) ==
    IF RankBelow(p100) < Len(Loads) THEN RankBelow(p100) + 1 ELSE Len(Loads)

\* the list with the elements at positions k and k + 1 exchanged
Swapped(seq, k) == [seq EXCEPT ![k] = seq[k + 1], ![k + 1] = seq[k]]

\* the loads of the scenario: 40, 60, 80 and 100 in some order
ScenarioLoads ==
    SortedLoads = <<Float(40, 1), Float(60, 1), Float(80, 1), Float(100, 1)>>

\* C15 as claimed: each of p50, p85, p95 lies between the two order statistics
\* of the raw loads next to rank p * (n - 1), where linear interpolation puts
\* it; loads 40, 60, 80, 100 give p50 = 70; min(loads) <= p50 <= p85 <= p95
\* <= max(loads); and exchanging two neighbouring sprints, hence any
\* reordering, leaves the three values as they are.
C15_PercentilesInterpolateRawLoads ==
    VelocityAnalysed =>
        /\ SortedLoads[RankBelow(50)] <= Bands.p50
        /\ Bands.p50 <= SortedLoads[RankAbove(50)]
        /\ SortedLoads[RankBelow(85)] <= Bands.p85
        /\ Bands.p85 <= SortedLoads[RankAbove(85)]
        /\ SortedLoads[RankBelow(95)] <= Bands.p95
        /\ Bands.p95 <= SortedLoads[RankAbove(95)]
        /\ ScenarioLoads => Bands.p50 = Float(70, 1)
        /\ MinLoad <= Bands.p50 /\ Bands.p50 <= Bands.p85
        /\ Bands.p85 <= Bands.p95 /\ Bands.p95 <= MaxLoad
        /\ \A k \in 1..(Len(Loads) - 1) :
               _compute_confidence_intervals(Swapped(Loads, k)) = Bands

\* C15 as amended: the interpolated values are rounded to two decimals, so
\* each of p50, p85, p95 lies between the two neighbouring order statistics
\* rounded to two decimals; loads 40, 60, 80, 100 give p50 = 70; round(min, 2)
\* <= p50 <= p85 <= p95 <= round(max, 2); and the order of the sprints does
\* not matter.
C15_PercentilesInterpolateRounded ==
    VelocityAnalysed =>
        /\ round(SortedLoads[RankBelow(50)], 2) <= Bands.p50
        /\ Bands.p50 <= round(SortedLoads[RankAbove(50)], 2)
        /\ round(SortedLoads[RankBelow(85)], 2) <= Bands.p85
        /\ Bands.p85 <= round(SortedLoads[RankAbove(85)], 2)
        /\ round(SortedLoads[RankBelow(95)], 2) <= Bands.p95
        /\ Bands.p95 <= round(SortedLoads[RankAbove(95)], 2)
        /\ ScenarioLoads => Bands.p50 = Float(70, 1)
        /\ round(MinLoad, 2) <= Bands.p50 /\ Bands.p50 <= Bands.p85
        /\ Bands.p85 <= Bands.p95 /\ Bands.p95 <= round(MaxLoad, 2)
        /\ \A k \in 1..(Len(Loads) - 1) :
               _compute_confidence_intervals(Swapped(Loads, k)) = Bands

\* the scenario's loads handed in out of order, analysed to p50 = 70
C15_Witness ==
    /\ VelocityAnalysed
    /\ ScenarioLoads
    /\ Loads # SortedLoads
    /\ Bands.p50 = Float(70, 1)

(***************************************************************************)
(* analyzers/risk_scorer.py.  Of RiskFactor the description, a text for    *)
(* the reader, is left out.                                                *)
(***************************************************************************)
LOW == "LOW"
MEDIUM == "MEDIUM"
HIGH == "HIGH"
CRITICAL == "CRITICAL"

FactorNames == <<"red_flags", "capacity_overrun", "velocity_variance",
                 "resource_over_allocation", "dependency_complexity">>

DEFAULT_WEIGHTS ==
    [red_flags |-> Float(25, 100), capacity_overrun |-> Float(25, 100),
     velocity_variance |-> Float(15, 100), resource_over_allocation |-> Float(20, 100),
     dependency_complexity |-> Float(15, 100)]

\* RiskScorer(weights): weights is None or an empty dict (Absent), or a dict
\* with the five keys; nothing is checked and nothing is raised
RiskScorer(weights) ==
    [raised |-> None,
     self |-> Present([weights |-> IF weights = Absent THEN DEFAULT_WEIGHTS
                                   ELSE weights[1]])]

\* min(a, b) and max(a, b) of two floats
min(a, b) == IF b < a THEN b ELSE a
max(a, b) == IF b > a THEN b ELSE a

\* severity_weights.get(rf.severity, 3.0)
severity_weight(severity) ==
    CASE severity = "critical" -> Float(15, 1)
      [] severity = "moderate" -> Float(8, 1)
      [] OTHER -> Float(3, 1)

_score_red_flags(flags) ==
    IF flags = <<>> THEN 0
    ELSE min(Float(100, 1),
             FSum([i \in 1..Len(flags) |-> severity_weight(flags[i].severity)]))

_score_capacity_overrun(analyses) ==
    LET total_capacity ==
            FSum([i \in 1..Len(analyses) |-> net_capacity(analyses[i].sprint)])
        total_overflow ==
            FSum([i \in 1..Len(analyses) |-> max(0, analyses[i].overflow_hours)])
    IN  IF analyses = <<>> THEN 0
        ELSE IF total_capacity <= 0 THEN 0
        ELSE min(Float(100, 1),
                 FMul(FMul(FDiv(total_overflow, total_capacity), Float(100, 1)),
                      Float(2, 1)))

_score_velocity_variance(variance) ==
    min(Float(100, 1), FMul(FDiv(variance, Float(4, 100)), Float(100, 1)))

\* analysis is None (Absent) or a ResourceAnalysis
_score_resource_over_allocation(analysis) ==
    IF analysis = Absent THEN 0
    ELSE IF analysis[1].total_resources = 0 THEN 0
    ELSE LET over_count == Len(analysis[1].over_allocated)
             ratio == FDiv(Float(over_count, 1), Float(analysis[1].total_resources, 1))
             base == min(Float(100, 1), FMul(ratio, Float(200, 1)))
             bottleneck_bonus ==
                 min(Float(20, 1),
                     FMul(Float(Len(analysis[1].bottleneck_warnings), 1), Float(10, 1)))
         IN  min(Float(100, 1), FAdd(base, bottleneck_bonus))

_score_dependency_complexity(dep_count, total_tasks) ==
    IF total_tasks = 0 THEN 0
    ELSE min(Float(100, 1),
             FMul(FDiv(Float(dep_count, 1), Float(total_tasks, 1)), Float(50, 1)))

_classify_risk(overall) ==
    IF overall <= Float(30, 1) THEN LOW
    ELSE IF overall <= Float(60, 1) THEN MEDIUM
    ELSE IF overall <= Float(80, 1) THEN HIGH
    ELSE CRITICAL

RiskFactor(name, raw_value, weight) ==
    [name |-> name, raw_value |-> raw_value,
     weighted_score |-> FMul(raw_value, weight), weight |-> weight]

RECURSIVE sorted_by_weighted_score(_)
\* sorted(factors, key=lambda f: -f.weighted_score): stable, largest first
sorted_by_weighted_score(factors) ==
    IF factors = <<>> THEN <<>>
    ELSE LET front == sorted_by_weighted_score(SubSeq(factors, 1, Len(factors) - 1))
             last == factors[Len(factors)]
             k == Cardinality({i \in 1..Len(front) :
                                  front[i].weighted_score >= last.weighted_score})
         IN  SubSeq(front, 1, k) \o <<last>> \o SubSeq(front, k + 1, Len(front))

\* the sum of the weighted scores as it is
unclamped(overall) == overall

\* line 138: the sum of the weighted scores clamped to 0-100
clamp(overall) == max(0, min(Float(100, 1), overall))

\* RiskScorer.score(...); args holds the six arguments, a missing list as the
\* empty list.  A top factor "name (x.y)" is kept as the name and the number
\* of tenths that the format .1f prints.
score(self, args) ==
    LET factors ==
            <<RiskFactor("red_flags", _score_red_flags(args.red_flags),
                         self.weights.red_flags),
              RiskFactor("capacity_overrun",
                         _score_capacity_overrun(args.capacity_analyses),
                         self.weights.capacity_overrun),
              RiskFactor("velocity_variance",
                         _score_velocity_variance(args.velocity_variance),
                         self.weights.velocity_variance),
              RiskFactor("resource_over_allocation",
                         _score_resource_over_allocation(args.resource_analysis),
                         self.weights.resource_over_allocation),
              RiskFactor("dependency_complexity",
                         _score_dependency_complexity(args.dependency_count,
                                                      args.total_tasks),
                         self.weights.dependency_complexity)>>
        overall == clamp(FSum([i \in 1..5 |-> factors[i].weighted_score]))
        sorted_factors == sorted_by_weighted_score(factors)
    IN  [overall_score |-> round(overall, 1),
         risk_level |-> _classify_risk(overall),
         factor_breakdown |-> factors,
         top_risk_factors |->
             [i \in 1..3 |-> [name |-> sorted_factors[i].name,
                              tenths |-> NearestEven(sorted_factors[i].weighted_score * 10,
                                                     One)]]]

(***************************************************************************)
(* Risk scoring: a scorer is constructed with some weights and score() is  *)
(* called once with the arguments chosen at the start.                     *)
(***************************************************************************)
AllWeights(w) ==
    [red_flags |-> w, capacity_overrun |-> w, velocity_variance |-> w,
     resource_over_allocation |-> w, dependency_complexity |-> w]

\* RiskScorer(), and custom weights: 1.0 each, -1.0 each, all on the red flags
WeightArgs ==
    {Absent, Present(AllWeights(One)), Present(AllWeights(-One)),
     Present([AllWeights(0) EXCEPT !.red_flags = One])}

Flags(severities) ==
    [i \in 1..Len(severities) |-> RedFlag(None, None, severities[i])]

ScoreFlags ==
    {<<>>, Flags(<<"low">>), Flags(<<"critical", "critical", "moderate">>),
     Flags(<<"critical", "critical", "critical">>),
     Flags(<<"critical", "critical", "critical", "critical",
             "critical", "critical", "critical">>)}

\* no analyses, a sprint of 5 hours loaded with 5, a sprint of no hours
ScoreCapacityAnalyses ==
    {<<>>,
     analyze(CapacityPlan(<<Sprint("Sprint 1", Float(5, 1), DefaultBuffer,
                                   <<Task("T1", "task", Float(5, 1), None, None,
                                          <<>>, <<>>)>>)>>), <<>>),
     analyze(CapacityPlan(<<Sprint("Sprint 1", 0, DefaultBuffer,
                                   <<Task("T1", "task", Float(5, 1), None, None,
                                          <<>>, <<>>)>>)>>), <<>>)}

\* None, ResourceAnalysis(), and the analysis of one over-allocated resource
ScoreResourceAnalyses ==
    {Absent,
     Present(resource_analyze(ResourceAnalyzer(Float(1, 1), Float(1, 2), 3), <<>>, <<>>)),
     Present(resource_analyze(
                 ResourceAnalyzer(Float(1, 1), Float(1, 2), 3),
                 <<Resource(bob, Float(4, 1))>>,
                 <<Sprint("Sprint 1", Float(10, 1), DefaultBuffer,
                          <<Task("T1", "task", Float(5, 1), "ST1", "E1", <<>>, <<bob>>)>>)>>))}

ScoreVariances == {0, Float(1, 100), Float(4, 100), Float(5, 10), Float(-1, 100)}

\* (dependency_count, total_tasks)
ScoreDependencies == {<<0, 0>>, <<3, 0>>, <<1, 2>>, <<2, 1>>}

ScoreArgs ==
    {[red_flags |-> f, capacity_analyses |-> c, resource_analysis |-> r,
      velocity_variance |-> v, dependency_count |-> d[1], total_tasks |-> d[2]] :
        f \in ScoreFlags, c \in ScoreCapacityAnalyses, r \in ScoreResourceAnalyses,
        v \in ScoreVariances, d \in ScoreDependencies}

InitScorer ==
    /\ scorer = Absent
    /\ score_args \in {Present(a) : a \in ScoreArgs}
    /\ risk_score = Absent
    /\ capacity_plan = CapacityPlan(<<>>)
    /\ NoCore
    /\ NoVelocity
    /\ NoRisk
    /\ NoBackend

\* scorer = RiskScorer(weights=w)
ConstructScorer(w) ==
    /\ scorer = Absent
    /\ scorer' = RiskScorer(w).self
    /\ error' = RiskScorer(w).raised
    /\ UNCHANGED <<analyzer, capacity_plan, red_flags, results, quick, clusters,
                   resources, thresholds, resource_analysis, velocityVars,
                   score_args, risk_score, riskVars, backendVars>>

\* risk_score = scorer.score(**score_args)
Score ==
    /\ scorer # Absent
    /\ risk_score = Absent
    /\ risk_score' = Present(score(scorer[1], score_args[1]))
    /\ UNCHANGED <<capacity_plan, coreVars, velocityVars, scorer, score_args,
                   riskVars, backendVars>>

NextScorer ==
    \/ \E w \in WeightArgs : ConstructScorer(w)
    \/ Score

SpecScorer == InitScorer /\ [][NextScorer]_vars

Scored == risk_score # Absent

\* the sum of the five weights of the scorer
WeightSum ==
    FSum([i \in 1..5 |-> risk_score[1].factor_breakdown[i].weight])

\* C12: score() returns 0 <= overall_score <= 100 for every input and for
\* the default and every custom weights.
C12_OverallScoreInRange ==
    Scored => /\ 0 <= risk_score[1].overall_score
              /\ risk_score[1].overall_score <= Float(100, 1)

\* a score clamped from above: custom weights of 1.0 each, two saturated factors
C12_Witness ==
    /\ Scored
    /\ scorer[1].weights = AllWeights(One)
    /\ risk_score[1].factor_breakdown[1].weighted_score = Float(100, 1)
    /\ risk_score[1].factor_breakdown[3].weighted_score = Float(100, 1)
    /\ risk_score[1].overall_score = Float(100, 1)

\* C13: a scorer exists, and a score is produced, only with weights that sum
\* to 1.0; other weights are rejected with a configuration error.
C13_WeightsSumToOne ==
    /\ scorer # Absent =>
           FSum([i \in 1..5 |-> scorer[1].weights[FactorNames[i]]]) = One
    /\ Scored => WeightSum = One

\* C14: the risk_level of a result agrees with its overall_score: LOW iff
\* overall_score <= 30, MEDIUM iff 30 < overall_score <= 60, HIGH iff
\* 60 < overall_score <= 80, CRITICAL iff overall_score > 80; and 2 critical
\* + 1 moderate flags with nothing else give the sub-score 38 and the overall
\* score 9.5, LOW.
C14_LevelAgreesWithScore ==
    Scored =>
        LET r == risk_score[1]
        IN  /\ r.risk_level = LOW <=> r.overall_score <= Float(30, 1)
            /\ r.risk_level = MEDIUM <=>
                   (Float(30, 1) < r.overall_score /\ r.overall_score <= Float(60, 1))
            /\ r.risk_level = HIGH <=>
                   (Float(60, 1) < r.overall_score /\ r.overall_score <= Float(80, 1))
            /\ r.risk_level = CRITICAL <=> r.overall_score > Float(80, 1)
            /\ (/\ scorer[1].weights = DEFAULT_WEIGHTS
                /\ score_args[1].red_flags = Flags(<<"critical", "critical", "moderate">>)
                /\ score_args[1].capacity_analyses = <<>>
                /\ score_args[1].resource_analysis = Absent
                /\ score_args[1].velocity_variance = 0
                /\ score_args[1].dependency_count = 0)
               => /\ r.factor_breakdown[1].raw_value = Float(38, 1)
                  /\ r.overall_score = Float(95, 10)
                  /\ r.risk_level = LOW

(***************************************************************************)
(* risk_analyzer.py: red flags in the acceptance criteria of a document.   *)
(* A text is the tuple of its words; the patterns \bterm\b are searched    *)
(* without regard to case.                                                 *)
(***************************************************************************)
AcceptanceCriteria(id, text, story_id, epic_id) ==
    [id |-> id, text |-> text, story_id |-> story_id, epic_id |-> epic_id]

Story(id, acceptance_criteria) ==
    [id |-> id, acceptance_criteria |-> acceptance_criteria]

Epic(id, stories) == [id |-> id, stories |-> stories]

DEDDocument(epics) == [epics |-> epics]

RECURSIVE Concat(_)
\* the lists of a list, one after the other
Concat(lists) ==
    IF lists = <<>> THEN <<>> ELSE Head(lists) \o Concat(Tail(lists))

all_stories(self) ==
    Concat([e \in 1..Len(self.epics) |-> self.epics[e].stories])

all_acceptance_criteria(self) ==
    LET stories == all_stories(self)
    IN  Concat([i \in 1..Len(stories) |-> stories[i].acceptance_criteria])

\* five of the entries of RiskAnalyzer.RED_FLAGS, in the order of the dict
RED_FLAGS ==
    <<[term |-> <<"fast">>, severity |-> "critical"],
      [term |-> <<"simple">>, severity |-> "moderate"],
      [term |-> <<"clean">>, severity |-> "low"],
      [term |-> <<"high", "quality">>, severity |-> "critical"],
      [term |-> <<"should">>, severity |-> "moderate"]>>

\* str.lower() of a word, for re.IGNORECASE
lower_word(w) ==
    CASE w = "Fast" -> "fast"
      [] w = "SHOULD" -> "should"
      [] w = "Quality" -> "quality"
      [] OTHER -> w

\* pattern.search(text) for the pattern \bterm\b
search(term, text) ==
    \E i \in 1..Len(text) :
        /\ i + Len(term) - 1 <= Len(text)
        /\ \A k \in 1..Len(term) : lower_word(text[i + k - 1]) = term[k]

\* the RedFlag analyze_criteria() builds for an entry of RED_FLAGS
FoundFlag(ac, flag_info) ==
    [ac |-> ac, flagged_term |-> flag_info.term, severity |-> flag_info.severity]

RECURSIVE criteria_loop(_, _)
\* the red_flags list of analyze_criteria() after the first n terms
criteria_loop(ac, n) ==
    IF n = 0 THEN <<>>
    ELSE IF search(RED_FLAGS[n].term, ac.text)
         THEN Append(criteria_loop(ac, n - 1), FoundFlag(ac, RED_FLAGS[n]))
         ELSE criteria_loop(ac, n - 1)

analyze_criteria(ac) == criteria_loop(ac, Len(RED_FLAGS))

severity_order(severity) ==
    CASE severity = "critical" -> 0
      [] severity = "moderate" -> 1
      [] severity = "low" -> 2

\* a flag put into a sorted list before the flags of its own severity
insert_before_equal(flags, rf) ==
    LET key == severity_order(rf.severity)
        before == {i \in 1..Len(flags) : severity_order(flags[i].severity) < key}
        n == Cardinality(before)
    IN  SubSeq(flags, 1, n) \o <<rf>> \o SubSeq(flags, n + 1, Len(flags))

\* list.sort is stable: a flag goes behind the flags whose key is not larger
insert_flag(flags, rf) ==
    LET key == severity_order(rf.severity)
        before == {i \in 1..Len(flags) : severity_order(flags[i].severity) <= key}
        n == Cardinality(before)
    IN  SubSeq(flags, 1, n) \o <<rf>> \o SubSeq(flags, n + 1, Len(flags))

RECURSIVE sort_by_severity(_)
\* red_flags.sort(key=lambda rf: severity_order[rf.severity])
sort_by_severity(flags) ==
    IF flags = <<>> THEN <<>>
    ELSE insert_flag(sort_by_severity(SubSeq(flags, 1, Len(flags) - 1)),
                     flags[Len(flags)])

\* RiskAnalyzer.analyze(document)
risk_analyze(doc) ==
    LET acs == all_acceptance_criteria(doc)
    IN  sort_by_severity(Concat([i \in 1..Len(acs) |-> analyze_criteria(acs[i])]))

(***************************************************************************)
(* Risk analysis: one call of RiskAnalyzer().analyze() on a document.      *)
(***************************************************************************)
MaxCriteria == 3

CriteriaTexts ==
    {<<"must", "be", "Fast">>, <<"should", "be", "simple">>,
     <<"clean", "and", "high", "Quality">>, <<"faster", "than", "before">>,
     <<"SHOULD", "work">>}

AcIds == <<"AC-1", "AC-2", "AC-3", "AC-4", "AC-5">>

\* the documents of n criteria: in one story, or each in a story of an epic of its own
Documents(n) ==
    UNION {
        LET acs == [i \in 1..n |-> AcceptanceCriteria(AcIds[i], texts[i], "S1", "E1")]
        IN  {DEDDocument(<<Epic("E1", <<Story("S1", acs)>>)>>),
             DEDDocument([i \in 1..n |-> Epic("E1", <<Story("S1", <<acs[i]>>)>>)])} :
        texts \in [1..n -> CriteriaTexts]}

InitRisk ==
    /\ document \in {Present(d) : d \in UNION {Documents(n) : n \in 0..MaxCriteria}}
    /\ found_flags = Absent
    /\ capacity_plan = CapacityPlan(<<>>)
    /\ NoCore
    /\ NoVelocity
    /\ NoScorer
    /\ NoBackend

\* found_flags = RiskAnalyzer().analyze(document)
RiskAnalyze ==
    /\ found_flags = Absent
    /\ found_flags' = Present(risk_analyze(document[1]))
    /\ UNCHANGED <<capacity_plan, coreVars, velocityVars, scorerVars, document,
                   backendVars>>

NextRisk == RiskAnalyze

SpecRisk == InitRisk /\ [][NextRisk]_vars

\* the flags of the criteria of the document, criterion by criterion
FlagsPerCriterion ==
    LET acs == all_acceptance_criteria(document[1])
    IN  Concat([i \in 1..Len(acs) |-> analyze_criteria(acs[i])])

Occurrences(flags, rf) == Cardinality({i \in 1..Len(flags) : flags[i] = rf})

\* the place of a flag in a list that holds it
Place(flags, rf) == CHOOSE i \in 1..Len(flags) : flags[i] = rf

\* C16: the list analyze(document) returns is sorted critical-first, is a
\* permutation of the flags found per acceptance criterion, and flags of
\* equal severity keep their document order.
C16_SortedStablePermutation ==
    found_flags # Absent =>
        LET sorted_flags == found_flags[1]
            per_criterion == FlagsPerCriterion
        IN  /\ \A i, j \in 1..Len(sorted_flags) :
                   i < j => severity_order(sorted_flags[i].severity)
                                <= severity_order(sorted_flags[j].severity)
            /\ Len(sorted_flags) = Len(per_criterion)
            /\ \A i \in 1..Len(per_criterion) :
                   Occurrences(sorted_flags, per_criterion[i])
                       = Occurrences(per_criterion, per_criterion[i])
            /\ \A i, j \in 1..Len(sorted_flags) :
                   (i < j /\ sorted_flags[i].severity = sorted_flags[j].severity)
                       => Place(per_criterion, sorted_flags[i])
                              < Place(per_criterion, sorted_flags[j])

\* a low flag found before a critical one and two moderate flags before both:
\* the sort moves the critical flags to the front and keeps the moderate ones
\* in document order
C16_Witness ==
    /\ found_flags # Absent
    /\ Len(found_flags[1]) >= 5
    /\ found_flags[1] # FlagsPerCriterion
    /\ \E i, j \in 1..Len(found_flags[1]) :
           /\ i < j
           /\ found_flags[1][i].severity = "moderate"
           /\ found_flags[1][j].severity = "moderate"
           /\ found_flags[1][i].ac # found_flags[1][j].ac
    /\ \E i \in 1..Len(found_flags[1]) : found_flags[1][i].severity = "low"

(***************************************************************************)
(* backend/app: the session middleware (core/session.py) in front of the   *)
(* file endpoints (api/v1/endpoints/files.py) and their storage            *)
(* (core/file_storage.py), on the tables of core/database.py.              *)
(***************************************************************************)
api_prefix == "/api/v1"

_EXEMPT_PATHS ==
    {"/health", "/api/v1/health", "/api/v1/docs", "/api/v1/openapi.json",
     "/api/v1/redoc"}

\* hashlib.sha256(raw_token.encode()).hexdigest(): one digest per token
_hash_token(raw_token) == <<"sha256", raw_token>>

\* the values str(uuid.uuid4()) returns in create_session() and in store(), and
\* those secrets.token_hex(32) returns, call by call
SessionUuids == <<"session-1", "session-2", "session-3", "session-4">>
FileUuids == <<"file-1", "file-2", "file-3", "file-4">>
Tokens == <<"token-1", "token-2", "token-3", "token-4">>

\* `not value` of an Optional[str] is false
Given(value) == value # None /\ value # ""

\* CREATE TABLE files has session_id TEXT NOT NULL; a files table that was
\* there before got the column by ALTER TABLE ... NOT NULL DEFAULT ''
SchemaCreated == "created"
SchemaMigrated == "migrated"

max_upload_size_mb == 50

MAGIC_BYTES(suffix) ==
    CASE suffix = "xlsx" -> "PK"
      [] suffix = "xls" -> "OLE2"
      [] suffix = "docx" -> "PK"
      [] suffix = "pdf" -> "%PDF"
      [] OTHER -> None

\* str.lower() of a part of a file name
lower_part(part) ==
    CASE part = "XLSX" -> "xlsx"
      [] part = "TXT" -> "txt"
      [] OTHER -> part

\* filename.lower().split(".")[-1] if "." in filename else ""; a file name is
\* the tuple of its parts between the dots
suffix_of(filename) ==
    IF Len(filename) > 1 THEN lower_part(filename[Len(filename)]) ELSE ""

Response(status_code, body) ==
    [status |-> status_code, body |-> body, x_session_id |-> None,
     x_session_token |-> None, state_session_id |-> None]

\* what an endpoint leaves behind: its response, or for an exception that no
\* handler below the middleware catches the response 500 of the application,
\* and the files table, the upload directory and the uuids used
Served(res, rows, dir, n, by) ==
    [response |-> res, files |-> rows, disk |-> dir, issued |-> n, uploaded_by |-> by]

\* FileStorage.list_files(): SELECT * FROM files ORDER BY uploaded_at DESC
storage_list_files == [i \in 1..Len(files) |-> files[i].file_id]

\* GET /api/v1/files
list_files(n) ==
    Served(Response(200, storage_list_files), files, disk, n, uploaded_by)

\* the INSERT of store() names no session_id: the column takes its default,
\* and without a default the NOT NULL constraint fails
insert_file(file_id, filename) ==
    IF files_schema = SchemaCreated
    THEN [raised |-> "IntegrityError", rows |-> files]
    ELSE [raised |-> None,
          rows |-> <<[file_id |-> file_id, filename |-> filename,
                      session_id |-> ""]>> \o files]

\* POST /api/v1/files/upload
upload_file(file, file_type, session_id, n) ==
    LET suffix == suffix_of(file.filename)
        expected_magic == MAGIC_BYTES(suffix)
        file_id == FileUuids[n[2] + 1]
        inserted == insert_file(file_id, file.filename)
    IN  IF file.size_mb > max_upload_size_mb
        THEN Served(Response(413, "File too large"), files, disk, n, uploaded_by)
        ELSE IF file_type = "ded" /\ suffix \notin {"docx", "doc", "md", "txt", "pdf"}
        THEN Served(Response(400, "Invalid DED file type"), files, disk, n, uploaded_by)
        ELSE IF file_type = "excel" /\ suffix \notin {"xlsx", "xls"}
        THEN Served(Response(400, "Invalid Excel file type"), files, disk, n, uploaded_by)
        ELSE IF expected_magic # None /\ file.magic # expected_magic
        THEN Served(Response(400, "File content does not match"), files, disk, n,
                    uploaded_by)
        ELSE IF inserted.raised # None
        THEN Served(Response(500, inserted.raised), files, disk \cup {file_id},
                    <<n[1], n[2] + 1>>, uploaded_by)
        ELSE Served(Response(200, file_id), inserted.rows, disk \cup {file_id},
                    <<n[1], n[2] + 1>>, uploaded_by \cup {<<file_id, session_id>>})

\* FileStorage.get(file_id): SELECT * FROM files WHERE file_id = ?
storage_get(file_id) == {i \in 1..Len(files) : files[i].file_id = file_id}

\* DELETE /api/v1/files/{file_id} and the FileStorage.delete(file_id) behind it
delete_file(file_id, n) ==
    LET stored == storage_get(file_id)
    IN  IF stored = {}
        THEN Served(Response(404, "File not found"), files, disk, n, uploaded_by)
        ELSE Served(Response(200, "deleted"),
                    SelectSeq(files, LAMBDA row : row.file_id # file_id),
                    disk \ {file_id}, n, uploaded_by)

\* the endpoint a request is routed to; session_id is request.state.session_id
call_next(req, session_id, n) ==
    LET served ==
            CASE req.method = "OPTIONS" ->
                     Served(Response(200, "preflight"), files, disk, n, uploaded_by)
              [] req.method = "GET" /\ req.path \in {"/health", "/api/v1/health"} ->
                     Served(Response(200, "healthy"), files, disk, n, uploaded_by)
              [] req.method = "GET" /\ req.path = "/api/v1/files" -> list_files(n)
              [] req.method = "POST" /\ req.path = "/api/v1/files/upload" ->
                     upload_file(req.file, req.file_type, session_id, n)
              [] req.method = "DELETE" /\ req.path = "/api/v1/files/{file_id}" ->
                     delete_file(req.file_id, n)
              [] OTHER ->
                     Served(Response(404, "Not Found"), files, disk, n, uploaded_by)
    IN  [served EXCEPT !.response.state_session_id = session_id]

\* validate_session(session_id, raw_token): the row of the id holds the hash;
\* the columns created_at and last_active_at, which no request reads, are
\* left out of the rows
validate_session(session_id, raw_token) ==
    \E row \in sessions :
        /\ row.session_id = session_id
        /\ row.session_token = _hash_token(raw_token)

\* the outcome of SessionMiddleware.dispatch(request, call_next): the
\* sessions table, what the endpoint left behind and the response sent
dispatch(req) ==
    LET session_id == req.x_session_id
        session_token == req.x_session_token
        new_id == SessionUuids[issued[1] + 1]
        raw_token == Tokens[issued[1] + 1]
        created == sessions \cup {[session_id |-> new_id,
                                   session_token |-> _hash_token(raw_token)]}
        unserved(status_code, detail) ==
            Served(Response(status_code, detail), files, disk, issued, uploaded_by)
    IN  IF req.path \in _EXEMPT_PATHS \/ req.method = "OPTIONS"
        THEN [sessions |-> sessions, served |-> call_next(req, None, issued)]
        ELSE IF ~Given(session_id) /\ ~Given(session_token)
        THEN LET served == call_next(req, new_id, <<issued[1] + 1, issued[2]>>)
             IN  [sessions |-> created,
                  served |-> IF served.response.status = 500
                             THEN served
                             ELSE [served EXCEPT !.response.x_session_id = new_id,
                                                 !.response.x_session_token = raw_token]]
        ELSE IF ~Given(session_id) \/ ~Given(session_token)
        THEN [sessions |-> sessions, served |-> unserved(401, "Both headers are required")]
        ELSE IF ~validate_session(session_id, session_token)
        THEN [sessions |-> sessions, served |-> unserved(401, "Invalid or expired session")]
        ELSE [sessions |-> sessions, served |-> call_next(req, session_id, issued)]

(***************************************************************************)
(* The backend serving requests one after the other.                       *)
(***************************************************************************)
MaxSessions == 2
MaxFiles == 1

HeaderIds == {None, "", "fake-session-id"} \cup {SessionUuids[i] : i \in 1..MaxSessions}
HeaderTokens == {None, ""} \cup {Tokens[i] : i \in 1..MaxSessions}

\* secret.txt, plan.XLSX, an xlsx file that is no zip archive, a file of 51 MB
UploadFiles ==
    {[filename |-> <<"secret", "txt">>, size_mb |-> 0, magic |-> "text"],
     [filename |-> <<"plan", "XLSX">>, size_mb |-> 1, magic |-> "PK"],
     [filename |-> <<"plan", "xlsx">>, size_mb |-> 1, magic |-> "text"],
     [filename |-> <<"big", "txt">>, size_mb |-> 51, magic |-> "text"]}

Request(method, path, file, file_type, file_id) ==
    [method |-> method, path |-> path, file |-> file, file_type |-> file_type,
     file_id |-> file_id, x_session_id |-> None, x_session_token |-> None]

NoFile == [filename |-> <<>>, size_mb |-> 0, magic |-> None]

\* secret.txt as an Excel file, and the four files as what they are
Uploads ==
    {<<f, IF suffix_of(f.filename) = "xlsx" THEN "excel" ELSE "ded">> : f \in UploadFiles}
    \cup {<<[filename |-> <<"secret", "txt">>, size_mb |-> 0, magic |-> "text"], "excel">>}

Routes ==
    {Request("GET", "/api/v1/health", NoFile, None, None),
     Request("OPTIONS", "/api/v1/files", NoFile, None, None),
     Request("GET", "/api/v1/files", NoFile, None, None)}
    \cup {Request("POST", "/api/v1/files/upload", u[1], u[2], None) : u \in Uploads}
    \cup {Request("DELETE", "/api/v1/files/{file_id}", NoFile, None, FileUuids[i]) :
              i \in 1..MaxFiles}

Requests ==
    {[r EXCEPT !.x_session_id = h, !.x_session_token = t] :
        r \in Routes, h \in HeaderIds, t \in HeaderTokens}

InitBackend ==
    /\ files_schema \in {SchemaCreated, SchemaMigrated}
    /\ sessions = {}
    /\ files = <<>>
    /\ disk = {}
    /\ uploaded_by = {}
    /\ issued = <<0, 0>>
    /\ request = Absent
    /\ response = Absent
    /\ capacity_plan = CapacityPlan(<<>>)
    /\ NoCore
    /\ NoVelocity
    /\ NoScorer
    /\ NoRisk
    /\ NoLast

\* one request through SessionMiddleware.dispatch and the endpoint behind it
Dispatch(req) ==
    LET out == dispatch(req)
    IN  /\ out.served.issued[1] <= MaxSessions
        /\ out.served.issued[2] <= MaxFiles
        /\ request' = Present(req)
        /\ response' = Present(out.served.response)
        /\ sessions' = out.sessions
        /\ files' = out.served.files
        /\ disk' = out.served.disk
        /\ issued' = out.served.issued
        /\ uploaded_by' = out.served.uploaded_by
        /\ UNCHANGED <<capacity_plan, coreVars, velocityVars, scorerVars, riskVars,
                       files_schema, lastVars>>

NextBackend == \E req \in Requests : Dispatch(req)

SpecBackend == InitBackend /\ [][NextBackend]_vars

\* the sessions the stored or deleted file of the last request was uploaded under
Uploaders(file_id) == {p[2] : p \in {q \in uploaded_by : q[1] = file_id}}

FileIdsIn(res) == {res.body[i] : i \in 1..Len(res.body)}

\* C17: a file uploaded under a session A is never returned by the file
\* listing of another session B, and a delete of it requested by B returns
\* 404 and leaves the file listed for A.
C17_SessionIsolation ==
    response # Absent =>
        LET req == request[1]
            res == response[1]
        IN  /\ (req.method = "GET" /\ req.path = "/api/v1/files" /\ res.status = 200)
                   => \A file_id \in FileIdsIn(res) :
                          Uploaders(file_id) \subseteq {res.state_session_id}
            /\ (/\ req.method = "DELETE"
                /\ res.status # 401
                /\ Uploaders(req.file_id) # {}
                /\ res.state_session_id \notin Uploaders(req.file_id))
                   => /\ res.status = 404
                      /\ \E i \in 1..Len(files) : files[i].file_id = req.file_id

\* C18: on every request that is neither exempt nor OPTIONS: without session
\* headers a fresh session is created and its id and raw token are returned
\* in the response headers; with exactly one of the two headers the request
\* is rejected with 401; with both it is served under that session id, and
\* without a new token, only if the hash of the token is the stored one of
\* that id, and rejected with 401 otherwise; exempt paths are served without
\* any session.  A header without a value counts as not sent.
C18_AdmissionRule ==
    [][LET req == request'[1]
           res == response'[1]
           session_id == req.x_session_id
           session_token == req.x_session_token
           rejected == /\ res.status = 401
                       /\ res.x_session_id = None /\ res.x_session_token = None
                       /\ res.state_session_id = None
                       /\ sessions' = sessions /\ files' = files /\ disk' = disk
       IN  IF req.path \in _EXEMPT_PATHS
           THEN /\ res.status = 200
                /\ res.state_session_id = None
                /\ res.x_session_id = None /\ res.x_session_token = None
                /\ sessions' = sessions
           ELSE IF req.method = "OPTIONS" THEN TRUE
           ELSE IF ~Given(session_id) /\ ~Given(session_token)
           THEN /\ \E row \in sessions' \ sessions :
                       /\ sessions' = sessions \cup {row}
                       /\ \A old \in sessions : old.session_id # row.session_id
                       /\ row.session_id = res.x_session_id
                       /\ row.session_token = _hash_token(res.x_session_token)
                       /\ res.state_session_id = row.session_id
           ELSE IF ~Given(session_id) \/ ~Given(session_token)
           THEN rejected
           ELSE IF \E row \in sessions : /\ row.session_id = session_id
                                         /\ row.session_token = _hash_token(session_token)
           THEN /\ res.status # 401
                /\ res.state_session_id = session_id
                /\ res.x_session_id = None /\ res.x_session_token = None
                /\ sessions' = sessions
           ELSE rejected]_vars

(***************************************************************************)
(* Move recommendations in floating point: an overloaded first sprint of   *)
(* no or half an hour with tasks of 3.8, 3.6, 0.6, 0.4 and 4.7 hours,      *)
(* followed by empty sprints.                                              *)
(***************************************************************************)
MaxMoveTasks == 4
MaxTargets == 2

MoveTasks ==
    {Task("T1", "task", Float(38, 10), None, None, <<>>, <<>>),
     Task("T2", "task", Float(36, 10), None, None, <<>>, <<>>),
     Task("T3", "task", Float(6, 10), None, None, <<>>, <<>>),
     Task("T4", "task", Float(4, 10), None, None, <<>>, <<>>),
     Task("T5", "task", Float(47, 10), None, None, <<>>, <<>>)}

MoveFirstTotals == {0, Float(5, 10)}

MoveTargets == {Float(10, 1), Float(100, 1)}

MovePlans ==
    {CapacityPlan(<<Sprint(SprintNames[1], first, DefaultBuffer, tasks)>>
                  \o [j \in 1..n |-> Sprint(SprintNames[j + 1], totals[j],
                                            DefaultBuffer, <<>>)]) :
        first \in MoveFirstTotals,
        tasks \in SeqsUpTo(MoveTasks, MaxMoveTasks),
        n \in 0..MaxTargets,
        totals \in [1..MaxTargets -> MoveTargets]}

InitMoves ==
    /\ analyzer = CapacityAnalyzer(DefaultBuffer).self
    /\ error = None
    /\ capacity_plan \in MovePlans
    /\ red_flags = <<>>
    /\ results = Absent
    /\ quick = Absent
    /\ NoDeployment
    /\ NoResources
    /\ NoLater

NextMoves == Analyze

SpecMoves == InitMoves /\ [][NextMoves]_vars

\* the moves to later sprints recommended for sprint i, in order
MovesOf(i) == WithPriority(Analysis(i), 2)

\* the index of the sprint a recommendation names as its target
TargetIndex(rec) == CHOOSE j \in Sprints : capacity_plan.sprints[j].name = rec.to_sprint

RECURSIVE RemainingSpare(_, _, _)
\* the spare capacity of sprint j less the hours of those of the first n moves
\* of sprint i that go into it, subtracted move by move as `available` is
\* (lines 178-182)
RemainingSpare(i, j, n) ==
    IF n = 0 THEN Spare(j)
    ELSE IF TargetIndex(MovesOf(i)[n]) = j
         THEN FSub(RemainingSpare(i, j, n - 1), MovesOf(i)[n].task.hours)
         ELSE RemainingSpare(i, j, n - 1)

\* the hours of the moves of sprint i into sprint j, added up exactly
HoursInto(i, j) ==
    MovedHours(SelectAt(MovesOf(i), {n \in 1..Len(MovesOf(i)) :
                                        TargetIndex(MovesOf(i)[n]) = j}))

\* the n-th move of sprint i goes to the first later sprint whose remaining
\* spare capacity holds the task
FirstFit(i, n) ==
    LET fits == {j \in Sprints :
                    j > i /\ RemainingSpare(i, j, n - 1) >= MovesOf(i)[n].task.hours}
    IN  /\ TargetIndex(MovesOf(i)[n]) > i
        /\ fits # {}
        /\ TargetIndex(MovesOf(i)[n]) = Min(fits)

\* C19: each move of a FAIL sprint goes to the first later sprint
\* whose remaining spare capacity is at least the hours of the task, and the
\* hours moved into one target never exceed its initial spare capacity.
C19_FirstFitWithinInitialSpare ==
    Analysed =>
        \A i \in Sprints :
            Analysis(i).status = FAIL =>
                /\ \A n \in 1..Len(MovesOf(i)) : FirstFit(i, n)
                /\ \A j \in Sprints : j > i => HoursInto(i, j) <= Spare(j)

\* the hours of the first n moves of sprint i, added up exactly
MovedBefore(i, n) == MovedHours(SubSeq(MovesOf(i), 1, n))

Descending(i) ==
    \A n \in 1..Len(MovesOf(i)) - 1 :
        MovesOf(i)[n].task.hours >= MovesOf(i)[n + 1].task.hours

\* C20: the moves of a FAIL sprint come in descending order of
\* hours, and none is made once the hours of the moves before it are at
\* least the overflow.
C20_StopsOnceAbsorbed ==
    Analysed =>
        \A i \in Sprints :
            Analysis(i).status = FAIL =>
                /\ Descending(i)
                /\ \A n \in 1..Len(MovesOf(i)) :
                       MovedBefore(i, n - 1) < Analysis(i).overflow_hours

\* the overflow of sprint i that its moves leave, with the moved hours added
\* up exactly
RemainingAfterMoves(i) == Analysis(i).overflow_hours - MovedHours(MovesOf(i))

\* the positions of the tasks of sprint i that a split could name: more hours
\* than the overflow that remains, and more than 4
Splittable(i) ==
    {k \in 1..Len(capacity_plan.sprints[i].tasks) :
        /\ capacity_plan.sprints[i].tasks[k].hours > RemainingAfterMoves(i)
        /\ capacity_plan.sprints[i].tasks[k].hours > Float(4, 1)}

\* C21: a FAIL sprint gets a split recommendation exactly when overflow remains
\* after its moves and one of its tasks has more hours than that remainder and
\* more than 4; there is at most one, for a largest such task; a PASS sprint
\* gets none.
C21_SplitIffOverflowRemains ==
    Analysed =>
        \A i \in Sprints :
            LET splits == WithPriority(Analysis(i), 3)
                tasks == capacity_plan.sprints[i].tasks
            IN  /\ Len(splits) <= 1
                /\ Analysis(i).status = PASS => splits = <<>>
                /\ Analysis(i).status = FAIL =>
                       (splits # <<>> <=> RemainingAfterMoves(i) > 0 /\ Splittable(i) # {})
                /\ splits # <<>> =>
                       /\ \E k \in Splittable(i) : tasks[k] = splits[1].task
                       /\ \A k \in Splittable(i) : tasks[k].hours <= splits[1].task.hours

\* C26: in the recommendations of a FAIL sprint the task of the split
\* recommendation (priority 3) is never the task of one of the sprint's move
\* recommendations (priority 2).
C26_SplitTaskNotMoved ==
    Analysed =>
        \A i \in Sprints :
            Analysis(i).status = FAIL =>
                \A n \in 1..Len(MovesOf(i)), k \in 1..Len(WithPriority(Analysis(i), 3)) :
                    MovesOf(i)[n].task # WithPriority(Analysis(i), 3)[k].task

\* the recommendations of sprint i that move a task into sprint t, later-sprint
\* moves and early validations alike
MovesInto(i, t) ==
    SelectAt(Analysis(i).recommendations,
             {k \in 1..Len(Analysis(i).recommendations) :
                 /\ Analysis(i).recommendations[k].priority \in {1, 2}
                 /\ Analysis(i).recommendations[k].to_sprint = capacity_plan.sprints[t].name})

RECURSIVE InboundHours(_, _)
\* the hours that the first n sprints of the plan recommend into sprint t, added
\* up exactly
InboundHours(t, n) ==
    IF n = 0 THEN 0 ELSE InboundHours(t, n - 1) + MovedHours(MovesInto(n, t))

\* C27: after analyze() the hours of all tasks recommended into a sprint, by
\* every other sprint and with priority 1 or 2, are at most the spare capacity
\* of that sprint.
C27_InboundWithinSpare ==
    Analysed =>
        \A t \in Sprints :
            InboundHours(t, Len(capacity_plan.sprints)) > 0 =>
                InboundHours(t, Len(capacity_plan.sprints)) <= Spare(t)

\* the earlier sprints whose spare capacity holds the k-th high-risk task of
\* sprint i
EarlierWithRoom(i, k) ==
    {e \in 1..(i - 1) : Spare(e) >= Analysis(i).high_risk_tasks[k].hours}

\* the high-risk tasks of sprint i that some earlier sprint has room for
Validatable(i) ==
    SelectAt(Analysis(i).high_risk_tasks,
             {k \in 1..Len(Analysis(i).high_risk_tasks) : EarlierWithRoom(i, k) # {}})

\* C22: whatever the status of a sprint, each of its high-risk tasks gets
\* exactly one priority-1 recommendation, to the first earlier sprint whose
\* spare capacity is at least the task's hours, and none if there is no such
\* sprint; the first sprint of the plan gets no such recommendation.
C22_EarlyValidationToFirstEarlierSprint ==
    Analysed =>
        \A i \in Sprints :
            LET early == WithPriority(Analysis(i), 1)
                high == Analysis(i).high_risk_tasks
                rooms == SelectAt([k \in 1..Len(high) |-> EarlierWithRoom(i, k)],
                                  {k \in 1..Len(high) : EarlierWithRoom(i, k) # {}})
            IN  /\ i = 1 => early = <<>>
                /\ Len(early) = Len(Validatable(i))
                /\ \A n \in 1..Len(early) :
                       /\ early[n].task = Validatable(i)[n]
                       /\ early[n].from_sprint = capacity_plan.sprints[i].name
                       /\ early[n].to_sprint = capacity_plan.sprints[Min(rooms[n])].name

\* a PASS sprint whose high-risk task goes to the second sprint because the
\* first one is full, next to a high-risk task in the first sprint
C22_Witness ==
    /\ Analysed
    /\ Len(capacity_plan.sprints) = 3
    /\ Analysis(1).high_risk_tasks # <<>>
    /\ Analysis(3).status = PASS
    /\ Len(WithPriority(Analysis(3), 1)) = 1
    /\ WithPriority(Analysis(3), 1)[1].to_sprint = capacity_plan.sprints[2].name

\* the fixed order of the domains
DomainOrder ==
    <<"auth", "user", "payment", "notification", "analytics", "admin", "api", "ui",
      "data", "search">>

\* the positions in DomainOrder of the domains that have a keyword in the
\* lower-cased name and tags of the task
MatchedDomains(task) ==
    {n \in 1..Len(DomainOrder) :
        \E d \in 1..Len(DOMAIN_KEYWORDS) :
            /\ DOMAIN_KEYWORDS[d].domain = DomainOrder[n]
            /\ \E k \in 1..Len(DOMAIN_KEYWORDS[d].keywords) :
                   Contains(lower(task.name \o <<" ">> \o join(task.tags)),
                            DOMAIN_KEYWORDS[d].keywords[k])}

\* the domain the rule of first match gives the task
FirstMatch(task) ==
    IF MatchedDomains(task) # {} THEN DomainOrder[Min(MatchedDomains(task))]
    ELSE IF task.story_id \notin {None, ""} THEN "story_" \o task.story_id
    ELSE "general"

\* C23: every task is classified into the earliest domain, in the fixed
\* order, that has a keyword in its name and tags, into the domain of its
\* story if none has, and into general if it has no story either; a cluster
\* holds tasks of its one domain only, and no task is in two clusters.
C23_FirstMatchingDomain ==
    clusters # Absent =>
        /\ \A t \in PlanTaskSet : _identify_domain(t) = FirstMatch(t)
        /\ \A c \in 1..Len(clusters[1]) :
               \A i \in 1..Len(clusters[1][c].tasks) :
                   clusters[1][c].name = _format_cluster_name(FirstMatch(clusters[1][c].tasks[i]))
        /\ \A c, d \in 1..Len(clusters[1]) :
               c # d =>
                   {clusters[1][c].tasks[i] : i \in 1..Len(clusters[1][c].tasks)}
                   \cap {clusters[1][d].tasks[i] : i \in 1..Len(clusters[1][d].tasks)} = {}

\* a cluster with a task that matches keywords of two domains, in a plan with
\* a task that matches none and has a story
C23_Witness ==
    /\ clusters # Absent
    /\ \E c \in 1..Len(clusters[1]) :
           \E i \in 1..Len(clusters[1][c].tasks) :
               Cardinality(MatchedDomains(clusters[1][c].tasks[i])) >= 2
    /\ \E t \in PlanTaskSet : MatchedDomains(t) = {} /\ t.story_id # None

(***************************************************************************)
(* One CapacityAnalyzer and one RiskScorer called again and again on one   *)
(* plan.  Neither analyze() nor score() assigns to an attribute of self,   *)
(* of the plan, of a sprint or of a task, or changes a list it was given:  *)
(* they build new lists and new result objects.                            *)
(***************************************************************************)
MaxCalls == 4

\* an overloaded sprint of two tasks, followed by an empty one
RepeatPlans ==
    {CapacityPlan(<<Sprint(SprintNames[1], Float(5, 1), DefaultBuffer, tasks),
                    Sprint(SprintNames[2], Float(10, 1), DefaultBuffer, <<>>)>>) :
        tasks \in SeqsOf(PlanTasks, 2)}

RepeatFlags == {<<>>, <<RedFlag("ST1", None, "critical")>>}

InitRepeat ==
    /\ analyzer = CapacityAnalyzer(DefaultBuffer).self
    /\ error = None
    /\ capacity_plan \in RepeatPlans
    /\ red_flags = <<>>
    /\ results = Absent
    /\ quick = Absent
    /\ NoDeployment
    /\ NoResources
    /\ NoVelocity
    /\ scorer = RiskScorer(Absent).self
    /\ score_args = Absent
    /\ risk_score = Absent
    /\ NoRisk
    /\ NoBackend

\* results = analyzer.analyze(capacity_plan, flags)
AnalyzeAgain(flags) ==
    /\ Len(calls) < MaxCalls
    /\ red_flags' = flags
    /\ results' = Present(analyze(capacity_plan, flags))
    /\ calls' = Append(calls, [op |-> "analyze", args |-> <<capacity_plan, flags>>,
                               returned |-> analyze(capacity_plan, flags)])
    /\ UNCHANGED <<analyzer, error, capacity_plan, quick, clusters, resources,
                   thresholds, resource_analysis, velocityVars, scorerVars, riskVars,
                   files_schema, sessions, files, disk, uploaded_by, issued, request,
                   response, settings, _request_log, clock, admissions, limited,
                   saved_analyses, serving, cleanup>>

\* risk_score = scorer.score(red_flags=red_flags, capacity_analyses=c), where c
\* is nothing or what analyze() returned last
ScoreAgain(with_analyses) ==
    LET args == [red_flags |-> red_flags,
                 capacity_analyses |-> IF with_analyses /\ results # Absent
                                       THEN results[1] ELSE <<>>,
                 resource_analysis |-> Absent,
                 velocity_variance |-> 0, dependency_count |-> 0, total_tasks |-> 0]
    IN  /\ Len(calls) < MaxCalls
        /\ score_args' = Present(args)
        /\ risk_score' = Present(score(scorer[1], args))
        /\ calls' = Append(calls, [op |-> "score", args |-> args,
                                   returned |-> score(scorer[1], args)])
        /\ UNCHANGED <<capacity_plan, coreVars, velocityVars, scorer, riskVars,
                       files_schema, sessions, files, disk, uploaded_by, issued,
                       request, response, settings, _request_log, clock, admissions,
                       limited, saved_analyses, serving, cleanup>>

NextRepeat ==
    \/ \E flags \in RepeatFlags : AnalyzeAgain(flags)
    \/ \E with_analyses \in BOOLEAN : ScoreAgain(with_analyses)

SpecRepeat == InitRepeat /\ [][NextRepeat]_vars

Settings(rate_limit_ai_per_minute) ==
    [rate_limit_ai_per_minute |-> rate_limit_ai_per_minute]

window == 60

\* _cleanup_window(timestamps, window_seconds), with the value of time.monotonic()
_cleanup_window(timestamps, window_seconds, monotonic) ==
    LET cutoff == monotonic - window_seconds
    IN  SelectAt(timestamps, {i \in 1..Len(timestamps) : timestamps[i] > cutoff})

\* _request_log[session_id] of a defaultdict(list): the entry is made if missing
request_log_entry(log, session_id) ==
    [s \in DOMAIN log \cup {session_id} |-> IF s \in DOMAIN log THEN log[s] ELSE <<>>]

\* HTTPException(status_code=...)
HTTPException(status_code) == <<"HTTPException", status_code>>

\* a limiter that keeps one list of timestamps for all sessions
rate_limit_ai_shared(session_id, first_read, second_read) ==
    LET max_requests == settings[1].rate_limit_ai_per_minute
        log == request_log_entry(_request_log, "shared")
        timestamps == _cleanup_window(log["shared"], window, first_read)
    IN  IF Len(timestamps) >= max_requests
        THEN [raised |-> HTTPException(429), log |-> log]
        ELSE [raised |-> <<>>,
              log |-> [log EXCEPT !["shared"] = Append(timestamps, second_read)]]

\* rate_limit_ai(request, session_id), with the two values of time.monotonic():
\* the exception raised, if any, and _request_log after the call
rate_limit_ai(session_id, first_read, second_read) ==
    LET max_requests == settings[1].rate_limit_ai_per_minute
        log == request_log_entry(_request_log, session_id)
        timestamps == _cleanup_window(log[session_id], window, first_read)
    IN  IF Len(timestamps) >= max_requests
        THEN [raised |-> HTTPException(429), log |-> log]
        ELSE [raised |-> <<>>,
              log |-> [log EXCEPT ![session_id] = Append(timestamps, second_read)]]

\* the timestamps of the admitted requests of a session
AdmissionsOf(log, session_id) == IF session_id \in DOMAIN log THEN log[session_id] ELSE <<>>

MaxRate == 2
MaxClock == 80
LimiterSessions == {"session-1", "session-2"}

\* the seconds that pass between two requests, and between the two clock reads
\* of one call
Pauses == {20, 40}
Delays == {0, 20}

InitLimiter ==
    /\ settings \in {Present(Settings(n)) : n \in 1..MaxRate}
    /\ calls = <<>>
    /\ _request_log = <<>>
    /\ clock = 0
    /\ admissions = <<>>
    /\ limited = Absent
    /\ saved_analyses = {}
    /\ serving = <<>>
    /\ cleanup = Absent
    /\ files_schema = "created"
    /\ sessions = {}
    /\ files = <<>>
    /\ disk = {}
    /\ uploaded_by = {}
    /\ issued = <<0, 0>>
    /\ request = Absent
    /\ response = Absent
    /\ capacity_plan = CapacityPlan(<<>>)
    /\ NoCore
    /\ NoVelocity
    /\ NoScorer
    /\ NoRisk

\* time passes
Tick(seconds) ==
    /\ clock + seconds <= MaxClock
    /\ clock' = clock + seconds
    /\ UNCHANGED <<capacity_plan, coreVars, velocityVars, scorerVars, riskVars,
                   files_schema, sessions, files, disk, uploaded_by, issued, request,
                   response, calls, settings, _request_log, admissions, limited,
                   saved_analyses, serving, cleanup>>

\* a request of the session reaches an endpoint that depends on rate_limit_ai
RateLimitAi(session_id, delay) ==
    LET out == rate_limit_ai(session_id, clock, clock + delay)
    IN  /\ clock + delay <= MaxClock
        /\ clock' = clock + delay
        /\ _request_log' = out.log
        /\ limited' = Present([session_id |-> session_id, at |-> clock,
                               raised |-> out.raised])
        /\ admissions' = IF out.raised = <<>>
                         THEN [s \in DOMAIN admissions \cup {session_id} |->
                                  IF s = session_id
                                  THEN Append(AdmissionsOf(admissions, s), clock + delay)
                                  ELSE admissions[s]]
                         ELSE admissions
        /\ UNCHANGED <<capacity_plan, coreVars, velocityVars, scorerVars, riskVars,
                       files_schema, sessions, files, disk, uploaded_by, issued,
                       request, response, calls, settings, saved_analyses, serving,
                       cleanup>>

NextLimiter ==
    \/ \E seconds \in Pauses : Tick(seconds)
    \/ \E session_id \in LimiterSessions, delay \in Delays : RateLimitAi(session_id, delay)

SpecLimiter == InitLimiter /\ [][NextLimiter]_vars

\* how many of the admitted requests of a session have a timestamp after
\* `after` and not after `upto`
Admitted(log, session_id, after, upto) ==
    Cardinality({n \in 1..Len(AdmissionsOf(log, session_id)) :
                    /\ AdmissionsOf(log, session_id)[n] > after
                    /\ AdmissionsOf(log, session_id)[n] <= upto})

session_ttl_hours == 24

MaxHours == 26
MaxRequests == 2

\* the hours that pass while no request is being served
Hours == {12, 13}

\* the variables that neither a request nor the cleanup touches
besideCleanup == <<capacity_plan, coreVars, velocityVars, scorerVars, riskVars,
                   files_schema, files, disk, uploaded_by, request, response,
                   calls, settings, _request_log, admissions, limited>>

InitCleanup ==
    /\ sessions = {}
    /\ issued = <<0, 0>>
    /\ clock = 0
    /\ saved_analyses = {}
    /\ serving = <<>>
    /\ cleanup = Absent
    /\ calls = <<>>
    /\ settings = Absent
    /\ _request_log = <<>>
    /\ admissions = <<>>
    /\ limited = Absent
    /\ files_schema = SchemaCreated
    /\ files = <<>>
    /\ disk = {}
    /\ uploaded_by = {}
    /\ request = Absent
    /\ response = Absent
    /\ capacity_plan = CapacityPlan(<<>>)
    /\ NoCore
    /\ NoVelocity
    /\ NoScorer
    /\ NoRisk

\* the requests that passed validate_session and whose endpoint has not returned
InFlight == {k \in 1..Len(serving) : serving[k].pc \in {"selected", "admitted"}}

\* time passes between requests
Pass(hours) ==
    /\ InFlight = {}
    /\ clock + hours <= MaxHours
    /\ clock' = clock + hours
    /\ UNCHANGED <<besideCleanup, sessions, issued, saved_analyses, serving, cleanup>>

\* create_session(): a request without session headers
CreateSession ==
    /\ issued[1] < MaxSessions
    /\ sessions' = sessions \cup {[session_id |-> SessionUuids[issued[1] + 1],
                                   session_token |-> _hash_token(Tokens[issued[1] + 1]),
                                   last_active_at |-> clock]}
    /\ issued' = <<issued[1] + 1, issued[2]>>
    /\ UNCHANGED <<besideCleanup, clock, saved_analyses, serving, cleanup>>

\* validate_session, lines 58-66: a request with the headers of session n; the
\* SELECT finds the row with the hash of the token, or the call returns False
ValidateSelect(n) ==
    /\ n \in 1..issued[1]
    /\ Len(serving) < MaxRequests
    /\ serving' = Append(serving,
                         [session_id |-> SessionUuids[n],
                          pc |-> IF \E row \in sessions :
                                        /\ row.session_id = SessionUuids[n]
                                        /\ row.session_token = _hash_token(Tokens[n])
                                 THEN "selected" ELSE "rejected"])
    /\ UNCHANGED <<besideCleanup, sessions, issued, clock, saved_analyses, cleanup>>

\* validate_session, lines 68-73: UPDATE ... WHERE session_id = ?, commit and
\* return True; dispatch() sets request.state.session_id and calls the endpoint
ValidateUpdate(k) ==
    /\ k \in 1..Len(serving)
    /\ serving[k].pc = "selected"
    /\ sessions' = {IF row.session_id = serving[k].session_id
                    THEN [row EXCEPT !.last_active_at = clock] ELSE row : row \in sessions}
    /\ serving' = [serving EXCEPT ![k].pc = "admitted"]
    /\ UNCHANGED <<besideCleanup, issued, clock, saved_analyses, cleanup>>

\* save_analysis: INSERT INTO analyses with the session id of the request
SaveAnalysis(k) ==
    /\ k \in 1..Len(serving)
    /\ serving[k].pc = "admitted"
    /\ saved_analyses' = saved_analyses \cup
                             {[analysis_id |-> k, session_id |-> serving[k].session_id]}
    /\ serving' = [serving EXCEPT ![k].pc = "served"]
    /\ UNCHANGED <<besideCleanup, sessions, issued, clock, cleanup>>

\* cleanup_expired_sessions, lines 83-95: the cutoff and the SELECT of the
\* expired ids; with none the run returns 0
CleanupSelect ==
    /\ IF cleanup = Absent THEN TRUE ELSE cleanup[1].pc \in {"returned", "committed"}
    /\ LET cutoff == clock - session_ttl_hours
           expired == {row.session_id : row \in {r \in sessions : r.last_active_at < cutoff}}
       IN  cleanup' = Present([pc |-> IF expired = {} THEN "returned" ELSE "expired",
                               expired |-> expired])
    /\ UNCHANGED <<besideCleanup, sessions, issued, clock, saved_analyses, serving>>

\* lines 97-109: SELECT path FROM files WHERE session_id IN (expired) and the
\* unlink of each path found
CleanupFiles ==
    /\ cleanup # Absent
    /\ cleanup[1].pc = "expired"
    /\ cleanup' = Present([cleanup[1] EXCEPT !.pc = "unlinked"])
    /\ UNCHANGED <<besideCleanup, sessions, issued, clock, saved_analyses, serving>>

\* lines 111-130: the DELETEs WHERE session_id IN (expired) and the commit
CleanupDelete ==
    /\ cleanup # Absent
    /\ cleanup[1].pc = "unlinked"
    /\ saved_analyses' = {a \in saved_analyses : a.session_id \notin cleanup[1].expired}
    /\ sessions' = {row \in sessions : row.session_id \notin cleanup[1].expired}
    /\ cleanup' = Present([cleanup[1] EXCEPT !.pc = "committed"])
    /\ UNCHANGED <<besideCleanup, issued, clock, serving>>

NextCleanup ==
    \/ \E hours \in Hours : Pass(hours)
    \/ CreateSession
    \/ \E n \in 1..MaxSessions : ValidateSelect(n)
    \/ \E k \in 1..MaxRequests : ValidateUpdate(k)
    \/ \E k \in 1..MaxRequests : SaveAnalysis(k)
    \/ CleanupSelect
    \/ CleanupFiles
    \/ CleanupDelete

SpecCleanup == InitCleanup /\ [][NextCleanup]_vars

\* C30: a request that validate_session admitted is served under a session
\* whose row is in the table, whatever a cleanup running beside it does, and
\* every analyses row has the id of a session in the table.
C30_ValidatedSessionSurvivesCleanup ==
    /\ \A k \in 1..Len(serving) :
           serving[k].pc = "admitted" =>
               \E row \in sessions : row.session_id = serving[k].session_id
    /\ \A a \in saved_analyses :
           \E row \in sessions : row.session_id = a.session_id

====
